---------------------------- MODULE Spec2Model ----------------------------
(***************************************************************************)
(* Model of the NRI validation policy engine:                              *)
(*   pkg/api/restrictions.go   RestrictionsValidator (technical layer)     *)
(*   pkg/api/policy.go         PolicyBasedValidator, ExtendedValidator     *)
(*   pkg/api/validation.go     ValidationManager, ValidateConfig, loaders  *)
(*   pkg/plugin/cgroup.go      resolveCgroupPath, convertSystemdPath       *)
(*                                                                         *)
(* Go strings are modelled as sequences of one-character strings, so that  *)
(* prefix, suffix and containment are computed rather than assumed.        *)
(* A Go pointer or optional value is a sequence of length 0 (nil) or 1.    *)
(***************************************************************************)
EXTENDS Integers, Sequences, FiniteSets, TLC

VARIABLES
    pc,             \* position of the operation under way
    pattern,        \* globMatch: the pattern argument
    str,            \* globMatch: the str argument
    matched,        \* globMatch: what each implementation returned
    adjust,         \* extractMutationCapabilities: the adjustment argument
    capabilities,   \* extractMutationCapabilities: the returned slice
    caller,         \* who drives the validators: the policy-validator plugin or an embedder
    config,         \* the ValidationConfig handed to ValidateConfig / NewValidationManager
    policy,         \* PolicyBasedValidator.policy
    restrictions,   \* PolicyBasedValidator.restrictionsValidator (nil or its config)
    defaultValidator, \* ExtendedValidator.defaultValidator (nil or present)
    legacyVerdict,  \* what the legacy validator collaborator answers for the request
    req,            \* the ValidateContainerAdjustmentRequest
    subject,        \* the subject resolved for the request (nil or a PolicySubject)
    ctxDone,        \* the context.Context of the call is cancelled (ctx.Err() != nil)
    validationCtx,  \* the ValidationContext of the call (nil or a record)
    pending,        \* plugin names the running range loop has not visited yet
    trace,          \* the checks evaluated so far, in order
    result,         \* the error value returned (or still running)
    files,          \* LoadConfigFromDir: the parsed files not merged yet, in Glob order
    mergedConfig,   \* LoadConfigFromDir: the accumulator
    annotations,    \* extractSubjectFromPod: the pod's annotation map
    history,        \* the validation calls completed so far: inputs and decision
    cgroupRoot,     \* resolveCgroupPath: the cgroupRoot argument
    cgroupPath,     \* resolveCgroupPath: the cgroupPath argument
    onDisk,         \* whether the cgroup directory exists on disk
    resolvedPath    \* resolveCgroupPath: the returned path

globVars == <<pattern, str, matched>>

extractVars == <<adjust, capabilities>>

\* what the caller supplies; no operation assigns these
inputVars == <<caller, config, legacyVerdict, req, subject, ctxDone>>

validatorVars == <<policy, restrictions, defaultValidator>>

callVars == <<validationCtx, pending, trace, result>>

cgroupVars == <<cgroupRoot, cgroupPath, onDisk, resolvedPath>>

loaderVars == <<files, mergedConfig, annotations, history, cgroupVars>>

vars == <<pc, globVars, extractVars, inputVars, validatorVars, callVars, loaderVars>>

\* ------------------------------------------------------------------------
\* Optional values and Go strings
\* ------------------------------------------------------------------------

Nil == <<>>

Some(v) == <<v>>

IsNil(p) == Len(p) = 0

Deref(p) == p[1]

\* strings.HasPrefix
HasPrefix(s, prefix) ==
    /\ Len(prefix) <= Len(s)
    /\ SubSeq(s, 1, Len(prefix)) = prefix

\* strings.HasSuffix
HasSuffix(s, suffix) ==
    /\ Len(suffix) <= Len(s)
    /\ SubSeq(s, Len(s) - Len(suffix) + 1, Len(s)) = suffix

\* strings.TrimSuffix
TrimSuffix(s, suffix) ==
    IF HasSuffix(s, suffix) THEN SubSeq(s, 1, Len(s) - Len(suffix)) ELSE s

\* strings.TrimPrefix
TrimPrefix(s, prefix) ==
    IF HasPrefix(s, prefix) THEN SubSeq(s, Len(prefix) + 1, Len(s)) ELSE s

\* strings.Contains
Contains(s, substr) ==
    \E i \in 1..(Len(s) - Len(substr) + 1) :
        SubSeq(s, i, i + Len(substr) - 1) = substr

Star == <<"*">>

\* ------------------------------------------------------------------------
\* Pattern matcher (both implementations)
\* ------------------------------------------------------------------------

\* A matcher that tries the leading-star rule before the trailing-star rule.
PolicyGlobMatchSuffixFirst(pat, s) ==
    IF pat = Star THEN TRUE
    ELSE IF Contains(pat, Star) /\ HasPrefix(pat, Star)
         THEN HasSuffix(s, TrimPrefix(pat, Star))
    ELSE IF Contains(pat, Star) /\ HasSuffix(pat, Star)
         THEN HasPrefix(s, TrimSuffix(pat, Star))
    ELSE pat = s

\* PolicyBasedValidator.globMatch
PolicyGlobMatch(pat, s) ==
    IF pat = Star THEN TRUE
    ELSE IF Contains(pat, Star) /\ HasSuffix(pat, Star)
         THEN HasPrefix(s, TrimSuffix(pat, Star))
    ELSE IF Contains(pat, Star) /\ HasPrefix(pat, Star)
         THEN HasSuffix(s, TrimPrefix(pat, Star))
    ELSE pat = s

\* RestrictionsValidator.globMatch
RestrictionsGlobMatch(pat, s) ==
    IF pat = Star THEN TRUE
    ELSE IF Contains(pat, Star) /\ HasSuffix(pat, Star)
         THEN HasPrefix(s, TrimSuffix(pat, Star))
    ELSE IF Contains(pat, Star) /\ HasPrefix(pat, Star)
         THEN HasSuffix(s, TrimPrefix(pat, Star))
    ELSE pat = s

\* ------------------------------------------------------------------------
\* Values shared by the specifications
\* ------------------------------------------------------------------------

\* A Go error value: nil, or fmt.Errorf's message with the prefixes that the
\* callers wrapped around it (outermost first).
\* The innermost message may name a capability, a wrapping prefix a plugin.
\* A validation error carries the indices of the rule or restriction it is about.
NoError ==
    [err |-> FALSE, wrap |-> <<>>, msg |-> "nil", cap |-> "none", plugin |-> <<>>,
     at |-> <<>>]

Errorf(m) ==
    [err |-> TRUE, wrap |-> <<>>, msg |-> m, cap |-> "none", plugin |-> <<>>,
     at |-> <<>>]

\* fmt.Errorf("mutation capability %s ...", cap)
ErrorfCap(m, c) == [Errorf(m) EXCEPT !.cap = c]

\* fmt.Errorf("rule %d, subject %d: ...", i, j)
ErrorfAt(m, indices) == [Errorf(m) EXCEPT !.at = indices]

\* fmt.Errorf("global restriction %d: %w", i, e)
WrapAt(prefix, indices, e) == [e EXCEPT !.wrap = <<prefix>> \o @, !.at = indices \o @]

\* fmt.Errorf("<prefix>: %w", e)
Wrap(prefix, e) == [e EXCEPT !.wrap = <<prefix>> \o @]

\* fmt.Errorf("plugin %s <prefix>: %w", pluginName, e)
WrapPlugin(prefix, pluginName, e) ==
    [e EXCEPT !.wrap = <<prefix>> \o @, !.plugin = pluginName]

\* The variables a specification does not use keep these values.
GlobIdle ==
    /\ pattern = <<>>
    /\ str = <<>>
    /\ matched = [policy |-> FALSE, restrictions |-> FALSE]

ExtractIdle ==
    /\ adjust = Nil
    /\ capabilities = <<>>

PipelineIdle ==
    /\ caller = "none"
    /\ ctxDone = FALSE
    /\ config = Nil
    /\ policy = Nil
    /\ restrictions = Nil
    /\ defaultValidator = Nil
    /\ legacyVerdict = "pass"
    /\ req = Nil
    /\ subject = Nil
    /\ validationCtx = Nil
    /\ pending = {}
    /\ trace = <<>>
    /\ result = NoError

CgroupIdle ==
    /\ cgroupRoot = <<>>
    /\ cgroupPath = <<>>
    /\ onDisk = FALSE
    /\ resolvedPath = <<>>

LoaderIdle ==
    /\ files = <<>>
    /\ mergedConfig = Nil
    /\ annotations = <<>>
    /\ history = <<>>
    /\ CgroupIdle

\* ------------------------------------------------------------------------
\* Specification of the pattern matcher: every pattern and value up to
\* MaxLen characters over Alphabet is matched by both implementations.
\* ------------------------------------------------------------------------

MaxLen == 3

Alphabet == {"a", "b", "*"}

Strings == UNION {[1..n -> Alphabet] : n \in 0..MaxLen}

GlobInit ==
    /\ pc = "glob"
    /\ pattern \in Strings
    /\ str \in Strings
    /\ matched = [policy |-> FALSE, restrictions |-> FALSE]
    /\ ExtractIdle
    /\ PipelineIdle
    /\ LoaderIdle

GlobMatch ==
    /\ pc = "glob"
    /\ matched' = [policy |-> PolicyGlobMatch(pattern, str),
                   restrictions |-> RestrictionsGlobMatch(pattern, str)]
    /\ pc' = "globbed"
    /\ UNCHANGED <<loaderVars, pattern, str, extractVars, inputVars, validatorVars, callVars>>

GlobNext == GlobMatch

SpecGlob == GlobInit /\ [][GlobNext]_vars

\* C8 (as stated): "*" matches everything; a pattern ending in "*" matches
\* exactly the values starting with the pattern minus the trailing star; a
\* pattern beginning with "*" matches exactly the values ending with the
\* pattern minus the leading star; any other pattern matches only the
\* identical string; the two implementations agree.
C8_GlobAsStated ==
    pc = "globbed" =>
        /\ matched.policy = matched.restrictions
        /\ (pattern = Star => matched.policy)
        /\ (Len(pattern) > 0 /\ pattern[Len(pattern)] = "*" =>
              (matched.policy <=> HasPrefix(str, SubSeq(pattern, 1, Len(pattern) - 1))))
        /\ (Len(pattern) > 0 /\ pattern[1] = "*" =>
              (matched.policy <=> HasSuffix(str, SubSeq(pattern, 2, Len(pattern)))))
        /\ (~(Len(pattern) > 0 /\ (pattern[1] = "*" \/ pattern[Len(pattern)] = "*")) =>
              (matched.policy <=> pattern = str))

\* C8 (amended): as C8, except that the trailing-star rule takes precedence:
\* the leading-star rule describes only the patterns that begin with "*" and
\* do not end with "*".
C8_GlobAmended ==
    pc = "globbed" =>
        /\ matched.policy = matched.restrictions
        /\ (pattern = Star => matched.policy)
        /\ (Len(pattern) > 0 /\ pattern[Len(pattern)] = "*" =>
              (matched.policy <=> HasPrefix(str, SubSeq(pattern, 1, Len(pattern) - 1))))
        /\ (Len(pattern) > 0 /\ pattern[1] = "*" /\ pattern[Len(pattern)] # "*" =>
              (matched.policy <=> HasSuffix(str, SubSeq(pattern, 2, Len(pattern)))))
        /\ (~(Len(pattern) > 0 /\ (pattern[1] = "*" \/ pattern[Len(pattern)] = "*")) =>
              (matched.policy <=> pattern = str))

\* A pattern with a star at both ends has been matched against a value that
\* starts with the pattern minus its trailing star and does not end with the
\* pattern minus its leading star.
C8_Witness ==
    /\ pc = "globbed"
    /\ Len(pattern) >= 2
    /\ pattern[1] = "*"
    /\ pattern[Len(pattern)] = "*"
    /\ matched.policy
    /\ matched.restrictions
    /\ ~HasSuffix(str, SubSeq(pattern, 2, Len(pattern)))

\* ------------------------------------------------------------------------
\* Capability Extractor
\* ------------------------------------------------------------------------

\* MutationCapability constants
MutationAnnotations == "annotations"

MutationMounts == "mounts"

MutationArgs == "args"

MutationEnv == "env"

MutationHooks == "hooks"

MutationRlimits == "rlimits"

MutationDevices == "devices"

MutationResources == "resources"

MutationSeccomp == "seccomp"

MutationNamespaces == "namespaces"

MutationMemory == "memory"

MutationCPU == "cpu"

MutationBlockIO == "blockio"

MutationRDT == "rdt"

MutationUnified == "unified"

\* A slice or map field of the adjustment: nil, non-nil with no entry, or
\* holding an entry.  A pointer field: nil or set.  An OptionalString: nil,
\* set to "", or set to a non-empty value.
Coll == {"nil", "empty", "set"}

Ptr == {"nil", "set"}

OptString == {"nil", "empty", "set"}

\* len() of a slice or map field
LenOf(c) == IF c = "set" THEN 1 ELSE 0

\* OptionalString.GetValue() # ""
HasValue(o) == o = "set"

LinuxResourcesSet ==
    [Memory : Ptr, Cpu : Ptr, BlockioClass : OptString, RdtClass : OptString,
     Unified : Coll]

LinuxContainerAdjustmentSet ==
    [Devices : Coll,
     Resources : {Nil} \cup {Some(r) : r \in LinuxResourcesSet},
     Namespaces : Coll]

ContainerAdjustmentSet ==
    [Annotations : Coll, Mounts : Coll, Args : Coll, Env : Coll, Hooks : Ptr,
     Rlimits : Coll,
     Linux : {Nil} \cup {Some(l) : l \in LinuxContainerAdjustmentSet}]

\* capabilities = append(capabilities, c), under the condition of the if
AppendIf(caps, cond, c) == IF cond THEN Append(caps, c) ELSE caps

\* A resources block that reports the specific capabilities without the
\* enclosing resources capability.
resourceCapabilitiesNoParent(caps, res) ==
    IF IsNil(res) THEN caps
    ELSE LET r  == Deref(res)
             c1 == AppendIf(caps, r.Memory # "nil", MutationMemory)
             c2 == AppendIf(c1, r.Cpu # "nil", MutationCPU)
             c3 == AppendIf(c2, r.BlockioClass # "nil" /\ HasValue(r.BlockioClass),
                            MutationBlockIO)
             c4 == AppendIf(c3, r.RdtClass # "nil" /\ HasValue(r.RdtClass),
                            MutationRDT)
         IN  AppendIf(c4, r.Unified # "nil" /\ LenOf(r.Unified) > 0, MutationUnified)

\* restrictions.go:238-257, the block under linux.Resources != nil
resourceCapabilities(caps, res) ==
    IF IsNil(res) THEN caps
    ELSE LET r  == Deref(res)
             c0 == Append(caps, MutationResources)
             c1 == AppendIf(c0, r.Memory # "nil", MutationMemory)
             c2 == AppendIf(c1, r.Cpu # "nil", MutationCPU)
             c3 == AppendIf(c2, r.BlockioClass # "nil" /\ HasValue(r.BlockioClass),
                            MutationBlockIO)
             c4 == AppendIf(c3, r.RdtClass # "nil" /\ HasValue(r.RdtClass),
                            MutationRDT)
         IN  AppendIf(c4, r.Unified # "nil" /\ LenOf(r.Unified) > 0, MutationUnified)

\* restrictions.go:231-265, the block under adjust.Linux != nil
linuxCapabilities(caps, lin) ==
    IF IsNil(lin) THEN caps
    ELSE LET l  == Deref(lin)
             c0 == AppendIf(caps, l.Devices # "nil" /\ LenOf(l.Devices) > 0,
                            MutationDevices)
             c1 == resourceCapabilities(c0, l.Resources)
         IN  AppendIf(c1, l.Namespaces # "nil" /\ LenOf(l.Namespaces) > 0,
                      MutationNamespaces)

\* An extractor that reports hooks only when the adjustment also sets
\* annotations, and env for a non-nil empty list.
extractMutationCapabilitiesSloppy(adj) ==
    IF IsNil(adj) THEN <<>>
    ELSE LET a  == Deref(adj)
             c0 == AppendIf(<<>>, a.Annotations # "nil" /\ LenOf(a.Annotations) > 0,
                            MutationAnnotations)
             c1 == AppendIf(c0, a.Mounts # "nil" /\ LenOf(a.Mounts) > 0, MutationMounts)
             c2 == AppendIf(c1, a.Args # "nil" /\ LenOf(a.Args) > 0, MutationArgs)
             c3 == AppendIf(c2, a.Env # "nil", MutationEnv)
             c4 == AppendIf(c3, a.Hooks # "nil" /\ LenOf(a.Annotations) > 0, MutationHooks)
             c5 == AppendIf(c4, a.Rlimits # "nil" /\ LenOf(a.Rlimits) > 0, MutationRlimits)
         IN  linuxCapabilities(c5, a.Linux)

\* An extractor that reports seccomp for every adjustment with a Linux part.
extractMutationCapabilitiesWithSeccomp(adj) ==
    IF IsNil(adj) THEN <<>>
    ELSE LET a  == Deref(adj)
             c0 == AppendIf(<<>>, a.Annotations # "nil" /\ LenOf(a.Annotations) > 0,
                            MutationAnnotations)
             c1 == AppendIf(c0, a.Mounts # "nil" /\ LenOf(a.Mounts) > 0, MutationMounts)
             c2 == AppendIf(c1, a.Args # "nil" /\ LenOf(a.Args) > 0, MutationArgs)
             c3 == AppendIf(c2, a.Env # "nil" /\ LenOf(a.Env) > 0, MutationEnv)
             c4 == AppendIf(c3, a.Hooks # "nil", MutationHooks)
             c5 == AppendIf(c4, a.Rlimits # "nil" /\ LenOf(a.Rlimits) > 0, MutationRlimits)
         IN  AppendIf(linuxCapabilities(c5, a.Linux), ~IsNil(a.Linux), MutationSeccomp)

\* RestrictionsValidator.extractMutationCapabilities
extractMutationCapabilities(adj) ==
    IF IsNil(adj) THEN <<>>
    ELSE LET a  == Deref(adj)
             c0 == AppendIf(<<>>, a.Annotations # "nil" /\ LenOf(a.Annotations) > 0,
                            MutationAnnotations)
             c1 == AppendIf(c0, a.Mounts # "nil" /\ LenOf(a.Mounts) > 0, MutationMounts)
             c2 == AppendIf(c1, a.Args # "nil" /\ LenOf(a.Args) > 0, MutationArgs)
             c3 == AppendIf(c2, a.Env # "nil" /\ LenOf(a.Env) > 0, MutationEnv)
             c4 == AppendIf(c3, a.Hooks # "nil", MutationHooks)
             c5 == AppendIf(c4, a.Rlimits # "nil" /\ LenOf(a.Rlimits) > 0, MutationRlimits)
         IN  linuxCapabilities(c5, a.Linux)

\* slices.Contains
SliceContains(sl, x) == \E i \in 1..Len(sl) : sl[i] = x

\* ------------------------------------------------------------------------
\* Specification of the extractor: every adjustment of ContainerAdjustmentSet,
\* and the nil adjustment, is handed to extractMutationCapabilities.
\* ------------------------------------------------------------------------

ExtractInit ==
    /\ pc = "extract"
    /\ adjust \in {Nil} \cup {Some(a) : a \in ContainerAdjustmentSet}
    /\ capabilities = <<>>
    /\ GlobIdle
    /\ PipelineIdle
    /\ LoaderIdle

ExtractMutationCapabilities ==
    /\ pc = "extract"
    /\ capabilities' = extractMutationCapabilities(adjust)
    /\ pc' = "extracted"
    /\ UNCHANGED <<loaderVars, globVars, adjust, inputVars, validatorVars, callVars>>

ExtractNext == ExtractMutationCapabilities

SpecExtract == ExtractInit /\ [][ExtractNext]_vars

\* The getters of the adjustment, nil-safe as the generated Go getters are.
GetLinux(adj) == IF IsNil(adj) THEN Nil ELSE Deref(adj).Linux

GetResources(adj) ==
    IF IsNil(GetLinux(adj)) THEN Nil ELSE Deref(GetLinux(adj)).Resources

\* The field of the adjustment a capability corresponds to is non-empty (a
\* slice or map with an entry, an optional string with a value) or non-nil
\* (a pointer).  The adjustment has no seccomp field.
FieldPresent(adj, cap) ==
    /\ ~IsNil(adj)
    /\ CASE cap = MutationAnnotations -> Deref(adj).Annotations = "set"
         [] cap = MutationMounts -> Deref(adj).Mounts = "set"
         [] cap = MutationArgs -> Deref(adj).Args = "set"
         [] cap = MutationEnv -> Deref(adj).Env = "set"
         [] cap = MutationHooks -> Deref(adj).Hooks = "set"
         [] cap = MutationRlimits -> Deref(adj).Rlimits = "set"
         [] cap = MutationDevices ->
                ~IsNil(GetLinux(adj)) /\ Deref(GetLinux(adj)).Devices = "set"
         [] cap = MutationNamespaces ->
                ~IsNil(GetLinux(adj)) /\ Deref(GetLinux(adj)).Namespaces = "set"
         [] cap = MutationResources -> ~IsNil(GetResources(adj))
         [] cap = MutationMemory ->
                ~IsNil(GetResources(adj)) /\ Deref(GetResources(adj)).Memory = "set"
         [] cap = MutationCPU ->
                ~IsNil(GetResources(adj)) /\ Deref(GetResources(adj)).Cpu = "set"
         [] cap = MutationBlockIO ->
                ~IsNil(GetResources(adj)) /\ Deref(GetResources(adj)).BlockioClass = "set"
         [] cap = MutationRDT ->
                ~IsNil(GetResources(adj)) /\ Deref(GetResources(adj)).RdtClass = "set"
         [] cap = MutationUnified ->
                ~IsNil(GetResources(adj)) /\ Deref(GetResources(adj)).Unified = "set"
         [] cap = MutationSeccomp -> FALSE

AllCapabilities ==
    {MutationAnnotations, MutationMounts, MutationArgs, MutationEnv, MutationHooks,
     MutationRlimits, MutationDevices, MutationResources, MutationSeccomp,
     MutationNamespaces, MutationMemory, MutationCPU, MutationBlockIO, MutationRDT,
     MutationUnified}

\* C9: for every adjustment and each of the 15 mutation categories, the
\* category is in the extracted set iff the corresponding field of the
\* adjustment is non-empty/non-nil; a nil adjustment yields the empty set.
C9_ExtractIffFieldPresent ==
    pc = "extracted" =>
        /\ \A cap \in AllCapabilities :
              SliceContains(capabilities, cap) <=> FieldPresent(adjust, cap)
        /\ \A i \in 1..Len(capabilities) : capabilities[i] \in AllCapabilities
        /\ (IsNil(adjust) => capabilities = <<>>)

\* An adjustment with a non-nil, empty env list, non-nil hooks and a memory
\* change has been extracted: hooks, resources and memory are reported.
C9_Witness ==
    /\ pc = "extracted"
    /\ ~IsNil(adjust)
    /\ Deref(adjust).Env = "empty"
    /\ Deref(adjust).Hooks = "set"
    /\ Deref(adjust).Annotations = "nil"
    /\ FieldPresent(adjust, MutationMemory)
    /\ SliceContains(capabilities, MutationHooks)
    /\ SliceContains(capabilities, MutationMemory)
    /\ SliceContains(capabilities, MutationResources)
    /\ ~SliceContains(capabilities, MutationEnv)

\* ------------------------------------------------------------------------
\* Policy Engine
\* ------------------------------------------------------------------------

\* PolicyBasedValidator.namespaceMatches
namespaceMatches(namespace, patterns) ==
    \E i \in 1..Len(patterns) : PolicyGlobMatch(patterns[i], namespace)

\* PolicyBasedValidator.findMatchingRules
findMatchingRules(pol, namespace) ==
    SelectSeq(pol.Rules, LAMBDA rule : namespaceMatches(namespace, rule.Namespaces))

\* PolicyBasedValidator.pluginAllowed
pluginAllowed(pluginName, allowedPlugins) ==
    \E i \in 1..Len(allowedPlugins) : PolicyGlobMatch(allowedPlugins[i], pluginName)

\* A subject check that compares the name and not the kind.
subjectAllowedByName(subj, allowedSubjects) ==
    /\ ~IsNil(subj)
    /\ \E i \in 1..Len(allowedSubjects) : Deref(subj).Name = allowedSubjects[i].Name

\* A subject check in which a missing subject satisfies any non-empty list.
subjectAllowedNilGranted(subj, allowedSubjects) ==
    IF IsNil(subj) THEN Len(allowedSubjects) > 0
    ELSE \E i \in 1..Len(allowedSubjects) :
            /\ Deref(subj).Kind = allowedSubjects[i].Kind
            /\ Deref(subj).Name = allowedSubjects[i].Name

\* PolicyBasedValidator.subjectAllowed
subjectAllowed(subj, allowedSubjects) ==
    IF IsNil(subj) THEN FALSE
    ELSE \E i \in 1..Len(allowedSubjects) :
            /\ Deref(subj).Kind = allowedSubjects[i].Kind
            /\ Deref(subj).Name = allowedSubjects[i].Name

\* An access check that denies whenever rules match the namespace and none
\* grants, whatever defaultDeny says.
validatePluginAccessStrict(pol, ctx) ==
    LET matchingRules == findMatchingRules(pol, ctx.PodNamespace)
    IN  IF Len(matchingRules) = 0
        THEN IF pol.DefaultDeny
             THEN Errorf("access denied: no matching rules found and defaultDeny is true")
             ELSE NoError
        ELSE IF \E i \in 1..Len(matchingRules) :
                   /\ pluginAllowed(ctx.PluginName, matchingRules[i].Plugins)
                   /\ subjectAllowed(ctx.Subject, matchingRules[i].Subjects)
             THEN NoError
             ELSE Errorf("access denied: no rule allows this subject/plugin combination")

\* PolicyBasedValidator.validatePluginAccess
validatePluginAccess(pol, ctx) ==
    LET matchingRules == findMatchingRules(pol, ctx.PodNamespace)
    IN  IF Len(matchingRules) = 0
        THEN IF pol.DefaultDeny
             THEN Errorf("access denied: no matching rules found and defaultDeny is true")
             ELSE NoError
        ELSE IF \E i \in 1..Len(matchingRules) :
                   /\ pluginAllowed(ctx.PluginName, matchingRules[i].Plugins)
                   /\ subjectAllowed(ctx.Subject, matchingRules[i].Subjects)
             THEN NoError
             ELSE IF pol.DefaultDeny
                  THEN Errorf("access denied: no rule allows this subject/plugin combination")
                  ELSE NoError

\* ------------------------------------------------------------------------
\* Specification of the Policy Engine: validatePluginAccess on every policy of
\* up to MaxRules rules over RuleSet and every context of ContextSet.
\* Names stand for the repository's examples: "dt" dev-test, "p" production,
\* "d*" dev-*, "*t" *-test, "c" cpu-manager, "u" an untrusted plugin.
\* ------------------------------------------------------------------------

MaxRules == 2

NamespaceSet == {<<"d", "t">>, <<"p">>, <<>>}

PluginNameSet == {<<"c">>, <<"u">>}

SubjectSet ==
    {[Kind |-> "User", Name |-> "developer"],
     [Kind |-> "User", Name |-> "other"],
     [Kind |-> "Group", Name |-> "developer"]}

NamespacePatternLists ==
    {<< <<"d", "*">> >>, << <<"p">>, <<"*", "t">> >>, << <<"x">> >>}

PluginPatternLists == {<< Star >>, << <<"c">> >>}

SubjectLists ==
    {<< [Kind |-> "User", Name |-> "developer"] >>,
     << [Kind |-> "Group", Name |-> "developer"], [Kind |-> "User", Name |-> "other"] >>,
     << >>}

RuleSet ==
    [Namespaces : NamespacePatternLists, Plugins : PluginPatternLists,
     Subjects : SubjectLists]

PolicySet ==
    [DefaultDeny : BOOLEAN,
     Rules : UNION {[1..n -> RuleSet] : n \in 0..MaxRules}]

ContextSet ==
    [Subject : {Nil} \cup {Some(sb) : sb \in SubjectSet},
     PodNamespace : NamespaceSet,
     PodName : {<<"w">>},
     PluginName : PluginNameSet]

PolicyInit ==
    /\ pc = "access"
    /\ policy \in PolicySet
    /\ validationCtx \in {Some(c) : c \in ContextSet}
    /\ result = NoError
    /\ caller = "test"
    /\ ctxDone = FALSE
    /\ config = Nil
    /\ restrictions = Nil
    /\ defaultValidator = Nil
    /\ legacyVerdict = "pass"
    /\ req = Nil
    /\ subject = Nil
    /\ pending = {}
    /\ trace = <<>>
    /\ GlobIdle
    /\ ExtractIdle
    /\ LoaderIdle

ValidatePluginAccess ==
    /\ pc = "access"
    /\ result' = validatePluginAccess(policy, Deref(validationCtx))
    /\ pc' = "accessed"
    /\ UNCHANGED <<loaderVars, globVars, extractVars, inputVars, validatorVars, validationCtx,
                   pending, trace>>

PolicyNext == ValidatePluginAccess

SpecPolicy == PolicyInit /\ [][PolicyNext]_vars

\* The pattern semantics of the Pattern Matcher contract, trailing star first.
GlobSemantics(pat, s) ==
    IF pat = Star THEN TRUE
    ELSE IF Len(pat) > 0 /\ pat[Len(pat)] = "*"
         THEN HasPrefix(s, SubSeq(pat, 1, Len(pat) - 1))
    ELSE IF Len(pat) > 0 /\ pat[1] = "*"
         THEN HasSuffix(s, SubSeq(pat, 2, Len(pat)))
    ELSE pat = s

AnyMatches(patterns, s) == \E i \in 1..Len(patterns) : GlobSemantics(patterns[i], s)

\* Some rule names the context's namespace, plugin and exact subject.
RuleGrants(rule, ctx) ==
    /\ AnyMatches(rule.Namespaces, ctx.PodNamespace)
    /\ AnyMatches(rule.Plugins, ctx.PluginName)
    /\ ~IsNil(ctx.Subject)
    /\ \E j \in 1..Len(rule.Subjects) : rule.Subjects[j] = Deref(ctx.Subject)

\* C1: with defaultDeny = true, validatePluginAccess allows iff some rule has
\* a namespace pattern matching the pod namespace, a plugin pattern matching
\* the plugin name and a subject entry equal in kind and name to the
\* context's subject; in every other case it denies.
C1_DefaultDenyAllowsIffRuleGrants ==
    (pc = "accessed" /\ policy.DefaultDeny) =>
        (~result.err <=>
            \E i \in 1..Len(policy.Rules) :
                RuleGrants(policy.Rules[i], Deref(validationCtx)))

\* Under defaultDeny = true a first rule matches the namespace without
\* granting and a second rule grants: access is allowed.
C1_Witness ==
    /\ pc = "accessed"
    /\ policy.DefaultDeny
    /\ Len(policy.Rules) = 2
    /\ AnyMatches(policy.Rules[1].Namespaces, Deref(validationCtx).PodNamespace)
    /\ ~RuleGrants(policy.Rules[1], Deref(validationCtx))
    /\ RuleGrants(policy.Rules[2], Deref(validationCtx))
    /\ ~result.err

\* C7: with defaultDeny = false, validatePluginAccess allows every context,
\* both when no rule matches the namespace and when rules match it and none
\* grants.
C7_PermissiveAllowsAll ==
    (pc = "accessed" /\ ~policy.DefaultDeny) => ~result.err

\* Under defaultDeny = false a rule matches the namespace, no rule grants,
\* and access is allowed.
C7_Witness ==
    /\ pc = "accessed"
    /\ ~policy.DefaultDeny
    /\ \E i \in 1..Len(policy.Rules) :
          AnyMatches(policy.Rules[i].Namespaces, Deref(validationCtx).PodNamespace)
    /\ \A i \in 1..Len(policy.Rules) : ~RuleGrants(policy.Rules[i], Deref(validationCtx))
    /\ ~result.err

\* ------------------------------------------------------------------------
\* Restrictions Engine
\* ------------------------------------------------------------------------

RestrictionAllow == "allow"

RestrictionDeny == "deny"

\* The first error of a sequence of error values, nil when there is none: a
\* loop that returns at the first err != nil.
FirstError(errs) ==
    IF \E i \in 1..Len(errs) : errs[i].err
    THEN errs[CHOOSE i \in 1..Len(errs) :
                  errs[i].err /\ \A j \in 1..(i - 1) : ~errs[j].err]
    ELSE NoError

\* The first element of a slice that satisfies Test (precondition: one does).
FirstWhere(sl, Test(_)) ==
    sl[CHOOSE i \in 1..Len(sl) : Test(sl[i]) /\ \A j \in 1..(i - 1) : ~Test(sl[j])]

\* A pod restriction check in which an allow list never fails.
checkPodRestrictionLenient(restriction, pod) == NoError

\* A restriction check in which a deny list passes whatever it lists.
checkMutationRestrictionNoDeny(restriction, caps) ==
    IF restriction.Action = RestrictionAllow
         /\ \E i \in 1..Len(caps) : ~SliceContains(restriction.Capabilities, caps[i])
    THEN ErrorfCap("mutation capability not in allowlist",
                   FirstWhere(caps, LAMBDA c : ~SliceContains(restriction.Capabilities, c)))
    ELSE NoError

\* A restriction check in which an allow list refuses an adjustment that
\* exercises no capability.
checkMutationRestrictionStrictAllow(restriction, caps) ==
    CASE restriction.Action = RestrictionAllow ->
            IF Len(caps) = 0 \/ \E i \in 1..Len(caps) :
                                   ~SliceContains(restriction.Capabilities, caps[i])
            THEN ErrorfCap("mutation capability not in allowlist", "none")
            ELSE NoError
      [] restriction.Action = RestrictionDeny ->
            IF \E i \in 1..Len(caps) : SliceContains(restriction.Capabilities, caps[i])
            THEN ErrorfCap("mutation capability is denied",
                     FirstWhere(caps, LAMBDA c : SliceContains(restriction.Capabilities, c)))
            ELSE NoError
      [] OTHER -> NoError

\* RestrictionsValidator.checkMutationRestriction
checkMutationRestriction(restriction, caps) ==
    CASE restriction.Action = RestrictionAllow ->
            IF \E i \in 1..Len(caps) : ~SliceContains(restriction.Capabilities, caps[i])
            THEN ErrorfCap("mutation capability not in allowlist",
                     FirstWhere(caps, LAMBDA c : ~SliceContains(restriction.Capabilities, c)))
            ELSE NoError
      [] restriction.Action = RestrictionDeny ->
            IF \E i \in 1..Len(caps) : SliceContains(restriction.Capabilities, caps[i])
            THEN ErrorfCap("mutation capability is denied",
                     FirstWhere(caps, LAMBDA c : SliceContains(restriction.Capabilities, c)))
            ELSE NoError
      [] OTHER -> NoError

\* A lookup that applies every PluginRestriction to every plugin.
findPluginRestrictionsAll(rc, pluginName) == rc.PluginRestrictions

\* RestrictionsValidator.findPluginRestrictions
findPluginRestrictions(rc, pluginName) ==
    SelectSeq(rc.PluginRestrictions,
              LAMBDA r : RestrictionsGlobMatch(r.PluginPattern, pluginName))

\* The MutationRestrictions of a list of PluginRestrictions, in loop order.
RECURSIVE FlattenMutationRestrictions(_)
FlattenMutationRestrictions(prs) ==
    IF Len(prs) = 0 THEN <<>>
    ELSE Head(prs).MutationRestrictions \o FlattenMutationRestrictions(Tail(prs))

\* The PodRestrictions of a list of PluginRestrictions, in loop order.
RECURSIVE FlattenPodRestrictions(_)
FlattenPodRestrictions(prs) ==
    IF Len(prs) = 0 THEN <<>>
    ELSE Head(prs).PodRestrictions \o FlattenPodRestrictions(Tail(prs))

\* A mutation validation that returns after the plugin-specific restrictions
\* of a plugin that has some, without looking at the global ones.
validatePluginMutationsPluginFirst(rc, pluginName, adj) ==
    LET caps     == extractMutationCapabilities(adj)
        specific == FlattenMutationRestrictions(findPluginRestrictions(rc, pluginName))
        checks   == IF Len(specific) > 0 THEN specific ELSE rc.GlobalRestrictions
    IN  FirstError([i \in 1..Len(checks) |-> checkMutationRestriction(checks[i], caps)])

\* A mutation validation that falls back on defaultAction when no
\* restriction applies to the plugin.
validatePluginMutationsDefaultAction(rc, pluginName, adj) ==
    LET caps   == extractMutationCapabilities(adj)
        checks == rc.GlobalRestrictions
                    \o FlattenMutationRestrictions(findPluginRestrictions(rc, pluginName))
    IN  IF Len(checks) = 0 /\ rc.DefaultAction = RestrictionDeny /\ Len(caps) > 0
        THEN ErrorfCap("mutation capability is denied", caps[1])
        ELSE FirstError([i \in 1..Len(checks) |-> checkMutationRestriction(checks[i], caps)])

\* A mutation check in which one passing allow restriction admits the
\* adjustment whatever the other restrictions say.
validatePluginMutationsAllowOverrides(rc, pluginName, adj) ==
    LET caps   == extractMutationCapabilities(adj)
        checks == rc.GlobalRestrictions
                    \o FlattenMutationRestrictions(findPluginRestrictions(rc, pluginName))
    IN  IF \E i \in 1..Len(checks) :
              /\ checks[i].Action = RestrictionAllow
              /\ ~checkMutationRestriction(checks[i], caps).err
        THEN NoError
        ELSE FirstError([i \in 1..Len(checks) |-> checkMutationRestriction(checks[i], caps)])

\* RestrictionsValidator.validatePluginMutations
validatePluginMutations(rc, pluginName, adj) ==
    LET caps   == extractMutationCapabilities(adj)
        checks == rc.GlobalRestrictions
                    \o FlattenMutationRestrictions(findPluginRestrictions(rc, pluginName))
    IN  FirstError([i \in 1..Len(checks) |-> checkMutationRestriction(checks[i], caps)])

\* len() of a map
MapLen(m) == Cardinality(DOMAIN m)

\* A selector match that is satisfied by one label of the selector.
podMatchesAnyLabel(selector, pod) ==
    /\ (Len(selector.Namespaces) > 0 =>
          \E i \in 1..Len(selector.Namespaces) :
              RestrictionsGlobMatch(selector.Namespaces[i], pod.Namespace))
    /\ (MapLen(selector.Labels) > 0 =>
          \E key \in DOMAIN selector.Labels :
              key \in DOMAIN pod.Labels /\ pod.Labels[key] = selector.Labels[key])
    /\ (Len(selector.Names) > 0 =>
          \E i \in 1..Len(selector.Names) :
              RestrictionsGlobMatch(selector.Names[i], pod.Name))

\* RestrictionsValidator.podMatches
podMatches(selector, pod) ==
    /\ (Len(selector.Namespaces) > 0 =>
          \E i \in 1..Len(selector.Namespaces) :
              RestrictionsGlobMatch(selector.Namespaces[i], pod.Namespace))
    /\ (MapLen(selector.Labels) > 0 =>
          \A key \in DOMAIN selector.Labels :
              key \in DOMAIN pod.Labels /\ pod.Labels[key] = selector.Labels[key])
    /\ (Len(selector.Names) > 0 =>
          \E i \in 1..Len(selector.Names) :
              RestrictionsGlobMatch(selector.Names[i], pod.Name))

\* A pod restriction check with allow and deny exchanged.
checkPodRestrictionInverted(restriction, pod) ==
    LET matches == podMatches(restriction.Selector, pod)
    IN  CASE restriction.Action = RestrictionAllow ->
                IF matches THEN Errorf("pod is in denylist") ELSE NoError
          [] restriction.Action = RestrictionDeny ->
                IF ~matches THEN Errorf("pod not in allowlist") ELSE NoError
          [] OTHER -> NoError

\* RestrictionsValidator.checkPodRestriction
checkPodRestriction(restriction, pod) ==
    LET matches == podMatches(restriction.Selector, pod)
    IN  CASE restriction.Action = RestrictionAllow ->
                IF ~matches THEN Errorf("pod not in allowlist") ELSE NoError
          [] restriction.Action = RestrictionDeny ->
                IF matches THEN Errorf("pod is in denylist") ELSE NoError
          [] OTHER -> NoError

\* RestrictionsValidator.validatePodAccess
validatePodAccess(rc, pluginName, pod) ==
    LET checks == rc.GlobalPodRestrictions
                    \o FlattenPodRestrictions(findPluginRestrictions(rc, pluginName))
    IN  FirstError([i \in 1..Len(checks) |-> checkPodRestriction(checks[i], pod)])

\* ValidateContainerAdjustmentRequest.GetPluginMap: the plugins of the
\* request keyed by name; the model keeps the key set.
GetPluginMap(r) == r.Plugins

\* One evaluated check, as the trace records it.
Event(check, pluginName, e) == [check |-> check, plugin |-> pluginName, ok |-> ~e.err]

\* RestrictionsValidator.ValidateContainerAdjustment up to the range loop:
\* the pod check and the plugin map.
RVPodCheck ==
    /\ pc = "rv.pod"
    /\ IF IsNil(req.Pod)
       THEN /\ result' = Errorf("pod information is required for restrictions validation")
            /\ pc' = "rv.return"
            /\ pending' = {}
       ELSE IF GetPluginMap(req) = {}
       THEN /\ result' = NoError
            /\ pc' = "rv.return"
            /\ pending' = {}
       ELSE /\ result' = NoError
            /\ pc' = "rv.loop"
            /\ pending' = GetPluginMap(req)
    /\ UNCHANGED <<loaderVars, globVars, extractVars, inputVars, validatorVars, validationCtx, trace>>

\* One iteration of the range loop of
\* RestrictionsValidator.ValidateContainerAdjustment, for any plugin the map
\* has not yielded yet (Go iterates a map in no fixed order).
RVPlugin ==
    /\ pc = "rv.loop"
    /\ \E pluginName \in pending :
          LET rc == Deref(restrictions)
              m  == validatePluginMutations(rc, pluginName, req.Adjust)
              a  == validatePodAccess(rc, pluginName, Deref(req.Pod))
          IN  IF m.err
              THEN /\ result' = WrapPlugin("plugin restricted", pluginName, m)
                   /\ trace' = Append(trace, Event("mutations", pluginName, m))
                   /\ pc' = "rv.return"
                   /\ pending' = {}
              ELSE IF a.err
              THEN /\ result' = WrapPlugin("plugin denied pod access", pluginName, a)
                   /\ trace' = trace \o <<Event("mutations", pluginName, m),
                                           Event("podaccess", pluginName, a)>>
                   /\ pc' = "rv.return"
                   /\ pending' = {}
              ELSE /\ result' = NoError
                   /\ trace' = trace \o <<Event("mutations", pluginName, m),
                                           Event("podaccess", pluginName, a)>>
                   /\ pending' = pending \ {pluginName}
                   /\ pc' = IF pending' = {} THEN "rv.return" ELSE "rv.loop"
    /\ UNCHANGED <<loaderVars, globVars, extractVars, inputVars, validatorVars, validationCtx>>

\* ------------------------------------------------------------------------
\* Specification of the Restrictions Engine: a RestrictionsValidator built
\* from every configuration of RestrictionsConfigSet validates every request
\* of RequestSet, as TestRestrictionsValidation calls it.
\* ------------------------------------------------------------------------

MaxGlobal == 2

EmptyMap == [key \in {} |-> ""]

SandboxLabels == [key \in {"tier"} |-> "sandbox"]

PodSet ==
    {[Namespace |-> <<"d", "t">>, Name |-> <<"w">>, Labels |-> SandboxLabels],
     [Namespace |-> <<"p">>, Name |-> <<"w">>, Labels |-> EmptyMap]}

EmptyAdjustment ==
    [Annotations |-> "nil", Mounts |-> "nil", Args |-> "nil", Env |-> "nil",
     Hooks |-> "nil", Rlimits |-> "nil", Linux |-> Nil]

NamespacesOnly == [Devices |-> "nil", Resources |-> Nil, Namespaces |-> "set"]

MemoryOnly ==
    [Devices |-> "nil",
     Resources |-> Some([Memory |-> "set", Cpu |-> "nil", BlockioClass |-> "nil",
                         RdtClass |-> "nil", Unified |-> "nil"]),
     Namespaces |-> "empty"]

AdjustSet ==
    {Nil,
     Some(EmptyAdjustment),
     Some([EmptyAdjustment EXCEPT !.Linux = Some(NamespacesOnly)]),
     Some([EmptyAdjustment EXCEPT !.Env = "set"]),
     Some([EmptyAdjustment EXCEPT !.Env = "set", !.Linux = Some(MemoryOnly)])}

RequestSet ==
    [Pod : {Nil} \cup {Some(pod) : pod \in PodSet},
     Adjust : AdjustSet,
     Plugins : SUBSET PluginNameSet]

MutationRestrictionSet ==
    [Action : {RestrictionAllow, RestrictionDeny},
     Capabilities : {<<MutationNamespaces>>, <<MutationEnv, MutationAnnotations>>}]

SelectProduction == [Namespaces |-> << <<"p">> >>, Labels |-> EmptyMap, Names |-> <<>>]

SelectSandbox == [Namespaces |-> <<>>, Labels |-> SandboxLabels, Names |-> << Star >>]

PodRestrictionSet ==
    [Action : {RestrictionAllow, RestrictionDeny},
     Selector : {SelectProduction, SelectSandbox}]

PluginRestrictionLists ==
    {<< >>,
     << [PluginPattern |-> <<"u", "*">>,
         MutationRestrictions |->
            << [Action |-> RestrictionAllow,
                Capabilities |-> <<MutationEnv, MutationAnnotations>>] >>,
         PodRestrictions |->
            << [Action |-> RestrictionAllow, Selector |-> SelectSandbox] >>] >>,
     << [PluginPattern |-> <<"c">>,
         MutationRestrictions |->
            << [Action |-> RestrictionDeny, Capabilities |-> <<MutationEnv>>] >>,
         PodRestrictions |-> << >>] >>,
     << [PluginPattern |-> <<"u", "*">>,
         MutationRestrictions |->
            << [Action |-> "audit", Capabilities |-> <<MutationNamespaces>>] >>,
         PodRestrictions |-> << >>],
        [PluginPattern |-> Star,
         MutationRestrictions |->
            << [Action |-> RestrictionAllow,
                Capabilities |-> <<MutationNamespaces, MutationEnv, MutationResources,
                                   MutationMemory>>] >>,
         PodRestrictions |->
            << [Action |-> RestrictionDeny, Selector |-> SelectProduction] >>] >>}

RestrictionsConfigSet ==
    [DefaultAction : {"", RestrictionDeny},
     GlobalRestrictions : UNION {[1..n -> MutationRestrictionSet] : n \in 0..MaxGlobal},
     PluginRestrictions : PluginRestrictionLists,
     GlobalPodRestrictions : {<< >>} \cup {<<r>> : r \in PodRestrictionSet}]

RestrictionsInit ==
    /\ pc = "rv.pod"
    /\ restrictions \in {Some(rc) : rc \in RestrictionsConfigSet}
    /\ req \in RequestSet
    /\ pending = {}
    /\ trace = <<>>
    /\ result = NoError
    /\ caller = "test"
    /\ ctxDone = FALSE
    /\ config = Nil
    /\ policy = Nil
    /\ defaultValidator = Nil
    /\ legacyVerdict = "pass"
    /\ subject = Nil
    /\ validationCtx = Nil
    /\ GlobIdle
    /\ ExtractIdle
    /\ LoaderIdle

RestrictionsNext == RVPodCheck \/ RVPlugin

SpecRestrictions == RestrictionsInit /\ [][RestrictionsNext]_vars

\* Some global deny restriction lists a capability the adjustment exercises.
GlobalDenyHit(rc, adj) ==
    \E i \in 1..Len(rc.GlobalRestrictions) :
        /\ rc.GlobalRestrictions[i].Action = RestrictionDeny
        /\ \E j \in 1..Len(rc.GlobalRestrictions[i].Capabilities) :
              SliceContains(extractMutationCapabilities(adj),
                            rc.GlobalRestrictions[i].Capabilities[j])

\* C2: when the extracted capability set of the adjustment intersects the
\* capability list of a global deny restriction, mutation validation fails
\* for every contributing mutator name, whatever plugin-specific and pod
\* restrictions are configured: no mutation check of the request passes, and
\* the restrictions validator returns an error once a mutator was checked.
C2_GlobalDenyFailsEveryMutator ==
    GlobalDenyHit(Deref(restrictions), req.Adjust) =>
        /\ \A pluginName \in GetPluginMap(req) :
              validatePluginMutations(Deref(restrictions), pluginName, req.Adjust).err
        /\ \A i \in 1..Len(trace) : trace[i].check = "mutations" => ~trace[i].ok
        /\ (pc = "rv.return" /\ GetPluginMap(req) # {} => result.err)

\* A global deny restriction is hit while a plugin-specific allow restriction
\* that matches the checked mutator lists the capability: the mutator is
\* refused with "is denied".
C2_Witness ==
    /\ pc = "rv.return"
    /\ GlobalDenyHit(Deref(restrictions), req.Adjust)
    /\ Len(trace) = 1
    /\ trace[1].check = "mutations"
    /\ ~trace[1].ok
    /\ Len(findPluginRestrictions(Deref(restrictions), trace[1].plugin)) > 0
    /\ result.msg = "mutation capability is denied"
    /\ Cardinality(GetPluginMap(req)) = 2

\* ------------------------------------------------------------------------
\* Validation Manager and the validation pipeline
\* ------------------------------------------------------------------------

\* var policy NRIValidationPolicySpec (the zero value)
ZeroPolicy == [DefaultDeny |-> FALSE, Rules |-> <<>>]

\* NewValidationManager, the defaultValidator it hands to NewExtendedValidator
newDefaultValidator(cfg) ==
    IF cfg.EnableDefaultValidator THEN Nil ELSE Nil

\* pod.GetNamespace(), pod.GetName() on a pod that may be nil
GetNamespace(pod) == IF IsNil(pod) THEN <<>> ELSE Deref(pod).Namespace

GetName(pod) == IF IsNil(pod) THEN <<>> ELSE Deref(pod).Name

\* The ValidationContext ValidationManager.ValidateContainerAdjustment builds
NewValidationContext(subj, pod) ==
    [Subject |-> subj, PodNamespace |-> GetNamespace(pod), PodName |-> GetName(pod),
     PluginName |-> <<>>]

\* NewValidationManager: the plugin's main builds the manager from the
\* loaded configuration.
NewValidationManager ==
    /\ pc = "start"
    /\ caller = "plugin"
    /\ defaultValidator' = newDefaultValidator(config)
    /\ policy' = IF IsNil(config.Policy) THEN ZeroPolicy ELSE Deref(config.Policy)
    /\ restrictions' = config.Restrictions
    /\ pc' = "vm.validate"
    /\ UNCHANGED <<loaderVars, globVars, extractVars, inputVars, callVars>>

\* ValidationManager.ValidateContainerAdjustment
ManagerValidateContainerAdjustment ==
    /\ pc = "vm.validate"
    /\ validationCtx' = Some(NewValidationContext(subject, req.Pod))
    /\ pc' = "ev.default"
    /\ UNCHANGED <<loaderVars, globVars, extractVars, inputVars, validatorVars, pending, trace,
                   result>>

\* NewExtendedValidator called by an embedder that injects a legacy
\* validator and then calls ExtendedValidator.ValidateContainerAdjustment
\* with its own ValidationContext, or with none.
NewExtendedValidator ==
    /\ pc = "start"
    /\ caller = "embedder"
    /\ defaultValidator' = Some("legacy")
    /\ policy' = IF IsNil(config.Policy) THEN ZeroPolicy ELSE Deref(config.Policy)
    /\ restrictions' = config.Restrictions
    /\ validationCtx' \in {Nil, Some(NewValidationContext(subject, req.Pod))}
    /\ pc' = "ev.default"
    /\ UNCHANGED <<loaderVars, globVars, extractVars, inputVars, pending, trace, result>>

\* ExtendedValidator.ValidateContainerAdjustment, the default validation
EVDefaultValidation ==
    /\ pc = "ev.default"
    /\ IF ~IsNil(defaultValidator)
       THEN LET e == IF legacyVerdict = "fail"
                     THEN Errorf("legacy validator refused") ELSE NoError
            IN  /\ trace' = Append(trace, Event("default", <<>>, e))
                /\ IF e.err
                   THEN /\ result' = Wrap("default validation failed", e)
                        /\ pc' = "done"
                   ELSE /\ result' = result
                        /\ pc' = "pv.pod"
       ELSE /\ trace' = trace
            /\ result' = result
            /\ pc' = "pv.pod"
    /\ UNCHANGED <<loaderVars, globVars, extractVars, inputVars, validatorVars, validationCtx,
                   pending>>

\* A policy validator that goes straight to the policy rules.
pvStageAfterPodCheckSkipRestrictions(rv) == "pv.policy"

\* PolicyBasedValidator.ValidateContainerAdjustment: restrictions first when
\* a restrictions validator is configured
pvStageAfterPodCheck(rv) == IF ~IsNil(rv) THEN "rv.pod" ELSE "pv.policy"

\* A policy validator that evaluates the policy for an anonymous mutator
\* when the request names none.
PVPodCheckAnonymous ==
    /\ pc = "pv.pod"
    /\ IF IsNil(req.Pod)
       THEN /\ result' = Wrap("policy validation failed",
                              Errorf("pod information is required for policy validation"))
            /\ pc' = "done"
            /\ UNCHANGED <<validationCtx, pending>>
       ELSE /\ validationCtx' = IF IsNil(validationCtx)
                                THEN Some(NewValidationContext(Nil, req.Pod))
                                ELSE validationCtx
            /\ result' = NoError
            /\ IF pvStageAfterPodCheck(restrictions) = "rv.pod"
               THEN /\ pc' = "rv.pod"
                    /\ pending' = {}
               ELSE /\ pending' = IF GetPluginMap(req) = {} THEN {<< >>}
                                  ELSE GetPluginMap(req)
                    /\ pc' = "pv.policy"
    /\ UNCHANGED <<loaderVars, globVars, extractVars, inputVars, validatorVars, trace>>

\* A policy validator that goes on without a pod.
PVPodCheckNoPod ==
    /\ pc = "pv.pod"
    /\ validationCtx' = IF IsNil(validationCtx)
                         THEN Some(NewValidationContext(Nil, req.Pod))
                         ELSE validationCtx
    /\ result' = NoError
    /\ pending' = GetPluginMap(req)
    /\ pc' = IF pending' = {} THEN "done" ELSE "pv.policy"
    /\ UNCHANGED <<loaderVars, globVars, extractVars, inputVars, validatorVars, trace>>

\* PolicyBasedValidator.ValidateContainerAdjustment up to the restrictions
\* call: the pod check and the default context.  With no restrictions
\* validator it enters the policy loop, which a request without plugins
\* leaves at once.
PVPodCheck ==
    /\ pc = "pv.pod"
    /\ IF IsNil(req.Pod)
       THEN /\ result' = Wrap("policy validation failed",
                              Errorf("pod information is required for policy validation"))
            /\ pc' = "done"
            /\ UNCHANGED <<validationCtx, pending>>
       ELSE /\ validationCtx' = IF IsNil(validationCtx)
                                THEN Some(NewValidationContext(Nil, req.Pod))
                                ELSE validationCtx
            /\ result' = NoError
            /\ IF pvStageAfterPodCheck(restrictions) = "rv.pod"
               THEN /\ pc' = "rv.pod"
                    /\ pending' = {}
               ELSE /\ pending' = GetPluginMap(req)
                    /\ pc' = IF pending' = {} THEN "done" ELSE "pv.policy"
    /\ UNCHANGED <<loaderVars, globVars, extractVars, inputVars, validatorVars, trace>>

\* PolicyBasedValidator.ValidateContainerAdjustment after the restrictions
\* validator returned: its error ends the call, otherwise the policy loop
\* begins.
PVAfterRestrictions ==
    /\ pc = "rv.return"
    /\ caller # "test"
    /\ IF result.err
       THEN /\ result' = Wrap("policy validation failed",
                              Wrap("restrictions validation failed", result))
            /\ pc' = "done"
            /\ pending' = {}
       ELSE /\ result' = NoError
            /\ pending' = GetPluginMap(req)
            /\ pc' = IF pending' = {} THEN "done" ELSE "pv.policy"
    /\ UNCHANGED <<loaderVars, globVars, extractVars, inputVars, validatorVars, validationCtx, trace>>

\* A policy loop that sets the plugin name of a context only when the
\* context has none yet.
setPluginNameOnce(ctx, pluginName) ==
    IF ctx.PluginName = <<>> THEN [ctx EXCEPT !.PluginName = pluginName] ELSE ctx

\* validationCtx.PluginName = pluginName
setPluginName(ctx, pluginName) == [ctx EXCEPT !.PluginName = pluginName]

\* A policy loop that stops after the first plugin the map yields.
PVPolicyFirstOnly ==
    /\ pc = "pv.policy"
    /\ \E pluginName \in pending :
          LET ctx == setPluginName(Deref(validationCtx), pluginName)
              e   == validatePluginAccess(policy, ctx)
          IN  /\ validationCtx' = Some(ctx)
              /\ trace' = Append(trace, Event("access", pluginName, e))
              /\ result' = IF e.err
                            THEN Wrap("policy validation failed",
                                      WrapPlugin("policy validation failed for plugin",
                                                 pluginName, e))
                            ELSE NoError
              /\ pc' = "done"
              /\ pending' = {}
    /\ UNCHANGED <<loaderVars, globVars, extractVars, inputVars, validatorVars>>

\* One iteration of the policy loop of
\* PolicyBasedValidator.ValidateContainerAdjustment, for any plugin the map
\* has not yielded yet.
PVPolicy ==
    /\ pc = "pv.policy"
    /\ \E pluginName \in pending :
          LET ctx == setPluginName(Deref(validationCtx), pluginName)
              e   == validatePluginAccess(policy, ctx)
          IN  /\ validationCtx' = Some(ctx)
              /\ trace' = Append(trace, Event("access", pluginName, e))
              /\ IF e.err
                 THEN /\ result' = Wrap("policy validation failed",
                             WrapPlugin("policy validation failed for plugin", pluginName, e))
                      /\ pc' = "done"
                      /\ pending' = {}
                 ELSE /\ result' = NoError
                      /\ pending' = pending \ {pluginName}
                      /\ pc' = IF pending' = {} THEN "done" ELSE "pv.policy"
    /\ UNCHANGED <<loaderVars, globVars, extractVars, inputVars, validatorVars>>

\* ------------------------------------------------------------------------
\* Specification of the pipeline: the plugin (through NewValidationManager)
\* or an embedder (through NewExtendedValidator, with a legacy validator)
\* validates every request of RequestSet for every subject under every
\* configuration of ConfigSet.
\* ------------------------------------------------------------------------

DevRule ==
    [Namespaces |-> << <<"d", "*">> >>, Plugins |-> << Star >>,
     Subjects |-> << [Kind |-> "User", Name |-> "developer"] >>]

CpuRule ==
    [Namespaces |-> << Star >>, Plugins |-> << <<"c">> >>,
     Subjects |-> << [Kind |-> "User", Name |-> "developer"],
                     [Kind |-> "User", Name |-> "other"] >>]

PolicySamples ==
    {[DefaultDeny |-> TRUE, Rules |-> << >>],
     [DefaultDeny |-> TRUE, Rules |-> << DevRule >>],
     [DefaultDeny |-> FALSE, Rules |-> << DevRule >>],
     [DefaultDeny |-> TRUE, Rules |-> << CpuRule >>]}

DenyNamespaces == [Action |-> RestrictionDeny, Capabilities |-> <<MutationNamespaces>>]

RestrictionsSamples ==
    {[DefaultAction |-> "", GlobalRestrictions |-> << >>,
      PluginRestrictions |-> << >>, GlobalPodRestrictions |-> << >>],
     [DefaultAction |-> RestrictionAllow, GlobalRestrictions |-> << DenyNamespaces >>,
      PluginRestrictions |-> << >>, GlobalPodRestrictions |-> << >>],
     [DefaultAction |-> RestrictionAllow,
      GlobalRestrictions |->
         << [Action |-> RestrictionAllow,
             Capabilities |-> <<MutationEnv, MutationNamespaces>>],
            DenyNamespaces >>,
      PluginRestrictions |->
         << [PluginPattern |-> <<"u", "*">>,
             MutationRestrictions |->
                << [Action |-> RestrictionAllow,
                    Capabilities |-> <<MutationEnv, MutationAnnotations>>] >>,
             PodRestrictions |->
                << [Action |-> RestrictionAllow, Selector |-> SelectSandbox] >>] >>,
      GlobalPodRestrictions |-> << >>],
     [DefaultAction |-> RestrictionDeny, GlobalRestrictions |-> << >>,
      PluginRestrictions |->
         << [PluginPattern |-> <<"c">>,
             MutationRestrictions |->
                << [Action |-> RestrictionDeny, Capabilities |-> <<MutationEnv>>] >>,
             PodRestrictions |-> << >>] >>,
      GlobalPodRestrictions |->
         << [Action |-> RestrictionDeny, Selector |-> SelectProduction] >>]}

ConfigSet ==
    [Policy : {Nil} \cup {Some(pol) : pol \in PolicySamples},
     Restrictions : {Nil} \cup {Some(rc) : rc \in RestrictionsSamples},
     EnableDefaultValidator : BOOLEAN]

Init ==
    /\ pc = "start"
    /\ caller \in {"plugin", "embedder"}
    /\ ctxDone = FALSE
    /\ config \in ConfigSet
    /\ legacyVerdict \in {"pass", "fail"}
    /\ req \in RequestSet
    /\ subject \in {Nil} \cup {Some(sb) : sb \in SubjectSet}
    /\ policy = Nil
    /\ restrictions = Nil
    /\ defaultValidator = Nil
    /\ validationCtx = Nil
    /\ pending = {}
    /\ trace = <<>>
    /\ result = NoError
    /\ GlobIdle
    /\ ExtractIdle
    /\ LoaderIdle

Next ==
    \/ NewValidationManager
    \/ ManagerValidateContainerAdjustment
    \/ NewExtendedValidator
    \/ EVDefaultValidation
    \/ PVPodCheck
    \/ RVPodCheck
    \/ RVPlugin
    \/ PVAfterRestrictions
    \/ PVPolicy

Spec == Init /\ [][Next]_vars

\* ------------------------------------------------------------------------
\* What the documentation says a request must satisfy, stated on the
\* request and the configuration and not through the validators' code.
\* ------------------------------------------------------------------------

Range(sl) == {sl[i] : i \in 1..Len(sl)}

CapabilitySet(adj) == {cap \in AllCapabilities : FieldPresent(adj, cap)}

MutationRestrictionPasses(r, capset) ==
    /\ (r.Action = "deny" => capset \cap Range(r.Capabilities) = {})
    /\ (r.Action = "allow" => capset \subseteq Range(r.Capabilities))

SelectorMatches(sel, pod) ==
    /\ (sel.Namespaces = <<>> \/ AnyMatches(sel.Namespaces, pod.Namespace))
    /\ \A key \in DOMAIN sel.Labels :
          key \in DOMAIN pod.Labels /\ pod.Labels[key] = sel.Labels[key]
    /\ (sel.Names = <<>> \/ AnyMatches(sel.Names, pod.Name))

PodRestrictionPasses(r, pod) ==
    /\ (r.Action = "allow" => SelectorMatches(r.Selector, pod))
    /\ (r.Action = "deny" => ~SelectorMatches(r.Selector, pod))

\* Every global restriction, and every restriction of every PluginRestriction
\* whose pattern matches the mutator, passes.  No restrictions configuration:
\* nothing to pass.
RestrictionsPass(rcOpt, pluginName, r) ==
    \/ IsNil(rcOpt)
    \/ LET rc == Deref(rcOpt)
       IN  /\ \A g \in Range(rc.GlobalRestrictions) :
                 MutationRestrictionPasses(g, CapabilitySet(r.Adjust))
           /\ \A g \in Range(rc.GlobalPodRestrictions) :
                 PodRestrictionPasses(g, Deref(r.Pod))
           /\ \A pr \in Range(rc.PluginRestrictions) :
                 GlobSemantics(pr.PluginPattern, pluginName) =>
                    /\ \A m \in Range(pr.MutationRestrictions) :
                          MutationRestrictionPasses(m, CapabilitySet(r.Adjust))
                    /\ \A q \in Range(pr.PodRestrictions) :
                          PodRestrictionPasses(q, Deref(r.Pod))

\* The policy of a configuration: none is the permissive policy without rules.
PolicyOf(cfg) == IF IsNil(cfg.Policy) THEN ZeroPolicy ELSE Deref(cfg.Policy)

\* The policy admits the mutator for the subject in the pod's namespace.
PolicyPasses(pol, subj, pod, pluginName) ==
    \/ ~pol.DefaultDeny
    \/ \E rule \in Range(pol.Rules) :
          RuleGrants(rule, [Subject |-> subj, PodNamespace |-> pod.Namespace,
                            PodName |-> pod.Name, PluginName |-> pluginName])

\* The stage whose failure the returned error reports.
SurfacedStage(e) ==
    IF ~e.err THEN "none"
    ELSE IF e.wrap[1] = "default validation failed" THEN "default"
    ELSE IF Len(e.wrap) >= 2 /\ e.wrap[2] = "restrictions validation failed"
         THEN "restrictions"
    ELSE IF Len(e.wrap) >= 2 /\ e.wrap[2] = "policy validation failed for plugin"
         THEN "policy"
    ELSE "pod"

\* The subject the policy loop sees: the context's.
ContextSubject == IF IsNil(validationCtx) THEN Nil ELSE Deref(validationCtx).Subject

\* The configuration holds the global restriction {deny, [namespaces]} and
\* the request has a pod and an adjustment with a Linux namespace entry.
DenyNamespacesApplies ==
    /\ ~IsNil(config.Restrictions)
    /\ \E g \in Range(Deref(config.Restrictions).GlobalRestrictions) :
          g = [Action |-> "deny", Capabilities |-> <<"namespaces">>]
    /\ ~IsNil(req.Pod)
    /\ FieldPresent(req.Adjust, "namespaces")

\* C3 (as stated): with a global restriction {deny, [namespaces]}, every
\* request with a pod whose adjustment sets a Linux namespace entry is denied
\* by the pipeline, regardless of the policy configuration and the subject.
C3_DenyNamespacesAsStated ==
    (pc = "done" /\ DenyNamespacesApplies) => result.err

\* C3 (amended): with a global restriction {deny, [namespaces]}, every
\* request with a pod and at least one contributing mutator whose adjustment
\* sets a Linux namespace entry is denied by the pipeline, regardless of the
\* policy configuration and the subject.
C3_DenyNamespacesAmended ==
    (pc = "done" /\ DenyNamespacesApplies /\ GetPluginMap(req) # {}) => result.err

\* The policy admits every mutator of a request that sets a namespace entry,
\* the legacy validator is absent, and the request is refused by the
\* restrictions layer for the namespaces capability.
C3_Witness ==
    /\ pc = "done"
    /\ DenyNamespacesApplies
    /\ caller = "plugin"
    /\ Cardinality(GetPluginMap(req)) = 2
    /\ PolicyOf(config).DefaultDeny
    /\ \A pluginName \in GetPluginMap(req) :
          PolicyPasses(PolicyOf(config), subject, Deref(req.Pod), pluginName)
    /\ result.err
    /\ SurfacedStage(result) = "restrictions"
    /\ result.cap = "namespaces"

\* C4: the pipeline returns nil only if the legacy validator (when present)
\* passes and, for every contributing mutator, the Restrictions Engine and
\* the Policy Engine pass; every check it evaluated passed and no check of a
\* contributing mutator was left out.
C4_FailClosed ==
    (pc = "done" /\ ~result.err) =>
        /\ (~IsNil(defaultValidator) => legacyVerdict = "pass")
        /\ \A pluginName \in GetPluginMap(req) :
              /\ RestrictionsPass(config.Restrictions, pluginName, req)
              /\ PolicyPasses(PolicyOf(config), ContextSubject, Deref(req.Pod), pluginName)
              /\ \E i \in 1..Len(trace) :
                    trace[i].check = "access" /\ trace[i].plugin = pluginName
              /\ ~IsNil(config.Restrictions) =>
                    \E i \in 1..Len(trace) :
                        trace[i].check = "podaccess" /\ trace[i].plugin = pluginName
        /\ \A i \in 1..Len(trace) : trace[i].ok

\* A request of two mutators passed a legacy validator, a restrictions
\* configuration with restrictions and a default-deny policy.
C4_Witness ==
    /\ pc = "done"
    /\ ~result.err
    /\ ~IsNil(defaultValidator)
    /\ ~IsNil(config.Restrictions)
    /\ Len(Deref(config.Restrictions).GlobalRestrictions) > 0
    /\ PolicyOf(config).DefaultDeny
    /\ Cardinality(GetPluginMap(req)) = 2
    /\ Len(trace) = 7

StageRank(check) ==
    CASE check = "default" -> 0
      [] check \in {"mutations", "podaccess"} -> 1
      [] check = "access" -> 2

\* C5: the legacy validator is evaluated before any restriction check, every
\* restriction check of every mutator before the first policy check, and a
\* failing check is the last one evaluated; hence when the legacy validator
\* does not fail and both the restrictions layer and the policy layer would
\* deny a mutator of the request, the surfaced failure is the restrictions
\* failure.
C5_StageOrdering ==
    /\ \A i, j \in 1..Len(trace) :
          i < j => StageRank(trace[i].check) <= StageRank(trace[j].check)
    /\ \A i \in 1..(Len(trace) - 1) : trace[i].ok
    /\ (\E i \in 1..Len(trace) : trace[i].check = "access") =>
          /\ ~IsNil(defaultValidator) => trace[1].check = "default"
          /\ ~IsNil(config.Restrictions) =>
                \A pluginName \in GetPluginMap(req) :
                    \E i \in 1..Len(trace) :
                        trace[i].check = "podaccess" /\ trace[i].plugin = pluginName
    /\ (/\ pc = "done"
        /\ ~IsNil(req.Pod)
        /\ (~IsNil(defaultValidator) => legacyVerdict = "pass")
        /\ \E pluginName \in GetPluginMap(req) :
              ~RestrictionsPass(config.Restrictions, pluginName, req)
        /\ \E pluginName \in GetPluginMap(req) :
              ~PolicyPasses(PolicyOf(config), ContextSubject, Deref(req.Pod), pluginName))
       => SurfacedStage(result) = "restrictions"

\* The legacy validator passed, then the restrictions layer refused a request
\* that the policy layer would have refused too.
C5_Witness ==
    /\ pc = "done"
    /\ Len(trace) >= 2
    /\ trace[1].check = "default"
    /\ trace[1].ok
    /\ \E pluginName \in GetPluginMap(req) :
          ~PolicyPasses(PolicyOf(config), ContextSubject, Deref(req.Pod), pluginName)
    /\ SurfacedStage(result) = "restrictions"

\* C6: when the configuration has enableDefaultValidator = true, the
\* Validation Manager built from it runs the legacy validator first on every
\* request and denies the request when that validator fails.
C6_EnabledRunsLegacyFirst ==
    (pc = "done" /\ caller = "plugin" /\ config.EnableDefaultValidator) =>
        /\ Len(trace) >= 1
        /\ trace[1].check = "default"
        /\ (legacyVerdict = "fail" => result.err)

\* ------------------------------------------------------------------------
\* Configuration validation
\* ------------------------------------------------------------------------

\* validKinds := []string{"User", "Group", "ServiceAccount"}
validKinds == <<"User", "Group", "ServiceAccount">>

\* validCapabilities := []MutationCapability{...}
validCapabilities ==
    <<MutationAnnotations, MutationMounts, MutationArgs, MutationEnv,
      MutationHooks, MutationRlimits, MutationDevices, MutationResources,
      MutationSeccomp, MutationNamespaces, MutationMemory, MutationCPU,
      MutationBlockIO, MutationRDT, MutationUnified>>

\* A restriction validation that accepts any capability name.
validateMutationRestrictionAnyName(restriction) ==
    IF restriction.Action # RestrictionAllow /\ restriction.Action # RestrictionDeny
    THEN Errorf("invalid action: must be 'allow' or 'deny'")
    ELSE IF Len(restriction.Capabilities) = 0
    THEN Errorf("capabilities cannot be empty")
    ELSE NoError

\* validateMutationRestriction
validateMutationRestriction(restriction) ==
    IF restriction.Action # RestrictionAllow /\ restriction.Action # RestrictionDeny
    THEN Errorf("invalid action: must be 'allow' or 'deny'")
    ELSE IF Len(restriction.Capabilities) = 0
    THEN Errorf("capabilities cannot be empty")
    ELSE IF \E k \in 1..Len(restriction.Capabilities) :
               ~SliceContains(validCapabilities, restriction.Capabilities[k])
    THEN ErrorfCap("invalid capability",
                   FirstWhere(restriction.Capabilities,
                              LAMBDA c : ~SliceContains(validCapabilities, c)))
    ELSE NoError

\* validatePolicy, the body of the loop over rule.Subjects (i, j count from 0)
validatePolicySubject(i, j, sb) ==
    IF sb.Kind = ""
    THEN ErrorfAt("kind cannot be empty", <<i, j>>)
    ELSE IF sb.Name = ""
    THEN ErrorfAt("name cannot be empty", <<i, j>>)
    ELSE IF ~SliceContains(validKinds, sb.Kind)
    THEN ErrorfAt("invalid kind", <<i, j>>)
    ELSE NoError

\* validatePolicy, the body of the loop over policy.Rules
validatePolicyRule(i, rule) ==
    IF Len(rule.Namespaces) = 0
    THEN ErrorfAt("namespaces cannot be empty", <<i>>)
    ELSE IF Len(rule.Plugins) = 0
    THEN ErrorfAt("plugins cannot be empty", <<i>>)
    ELSE IF Len(rule.Subjects) = 0
    THEN ErrorfAt("subjects cannot be empty", <<i>>)
    ELSE FirstError([j \in 1..Len(rule.Subjects) |->
                        validatePolicySubject(i, j - 1, rule.Subjects[j])])

\* validatePolicy
validatePolicy(pol) ==
    FirstError([i \in 1..Len(pol.Rules) |-> validatePolicyRule(i - 1, pol.Rules[i])])

\* validateRestrictions, the body of the loop over restrictions.PluginRestrictions
validatePluginRestriction(i, pluginRestriction) ==
    IF Len(pluginRestriction.PluginPattern) = 0
    THEN ErrorfAt("pluginPattern cannot be empty", <<i>>)
    ELSE LET errs == [j \in 1..Len(pluginRestriction.MutationRestrictions) |->
                        LET e == validateMutationRestriction(
                                    pluginRestriction.MutationRestrictions[j])
                        IN  IF e.err
                            THEN WrapAt("plugin restriction, mutation restriction",
                                        <<i, j - 1>>, e)
                            ELSE NoError]
         IN  FirstError(errs)

\* validateRestrictions
validateRestrictions(rc) ==
    IF rc.DefaultAction # ""
         /\ rc.DefaultAction # RestrictionAllow /\ rc.DefaultAction # RestrictionDeny
    THEN Errorf("invalid defaultAction: must be 'allow' or 'deny'")
    ELSE LET globals == [i \in 1..Len(rc.GlobalRestrictions) |->
                           LET e == validateMutationRestriction(rc.GlobalRestrictions[i])
                           IN  IF e.err
                               THEN WrapAt("global restriction", <<i - 1>>, e)
                               ELSE NoError]
             plugins == [i \in 1..Len(rc.PluginRestrictions) |->
                           validatePluginRestriction(i - 1, rc.PluginRestrictions[i])]
         IN  FirstError(globals \o plugins)

\* ValidateConfig
validateConfig(cfg) ==
    IF IsNil(cfg) THEN Errorf("config cannot be nil")
    ELSE LET c  == Deref(cfg)
             pe == IF IsNil(c.Policy) THEN NoError ELSE validatePolicy(Deref(c.Policy))
             re == IF IsNil(c.Restrictions) THEN NoError
                   ELSE validateRestrictions(Deref(c.Restrictions))
         IN  IF pe.err THEN Wrap("invalid policy", pe)
             ELSE IF re.err THEN Wrap("invalid restrictions", re)
             ELSE NoError

\* ------------------------------------------------------------------------
\* Specification of configuration validation: ValidateConfig is handed the
\* nil configuration and configurations whose policy, global restrictions or
\* plugin restrictions range over well-formed and ill-formed entries.
\* ------------------------------------------------------------------------

CfgSubjectSet ==
    [Kind : {"", "User", "Group", "ServiceAccount", "Robot"}, Name : {"", "developer"}]

GoodSubject == [Kind |-> "ServiceAccount", Name |-> "developer"]

CfgSubjectLists ==
    {<< >>} \cup {<<sb>> : sb \in CfgSubjectSet}
            \cup {<<GoodSubject, sb>> : sb \in CfgSubjectSet}

CfgRuleSet ==
    {rule \in [Namespaces : {<< >>, << Star >>}, Plugins : {<< >>, << Star >>},
               Subjects : CfgSubjectLists] :
        Len(rule.Namespaces) > 0 \/ Len(rule.Plugins) > 0}

CfgPolicySet ==
    [DefaultDeny : {TRUE},
     Rules : UNION {[1..n -> CfgRuleSet] : n \in 0..MaxRules}]

CfgCapabilityLists ==
    {<< >>, validCapabilities, <<MutationEnv, "bogus">>, <<"bogus">>}

CfgMutationRestrictionSet ==
    [Action : {RestrictionAllow, RestrictionDeny, "audit", ""},
     Capabilities : CfgCapabilityLists]

GoodMutationRestriction == [Action |-> RestrictionAllow, Capabilities |-> validCapabilities]

AuditPodRestriction == [Action |-> "audit", Selector |-> SelectProduction]

CfgPluginRestrictionSet ==
    [PluginPattern : {<< >>, <<"u", "*">>},
     MutationRestrictions :
        {<< >>} \cup {<<m>> : m \in CfgMutationRestrictionSet}
                \cup {<<GoodMutationRestriction, m>> : m \in CfgMutationRestrictionSet},
     PodRestrictions : {<< >>, << AuditPodRestriction >>}]

GoodPluginRestriction ==
    [PluginPattern |-> <<"u", "*">>,
     MutationRestrictions |-> << GoodMutationRestriction >>,
     PodRestrictions |-> << >>]

CfgPluginRestrictionLists ==
    {<< >>} \cup {<<pr>> : pr \in CfgPluginRestrictionSet}
            \cup {<<GoodPluginRestriction, pr>> : pr \in CfgPluginRestrictionSet}

GoodPolicy == [DefaultDeny |-> TRUE, Rules |-> << DevRule >>]

BadPolicy ==
    [DefaultDeny |-> TRUE,
     Rules |-> << [DevRule EXCEPT !.Subjects = << [Kind |-> "Robot", Name |-> "x"] >>] >>]

BadRestrictions ==
    [DefaultAction |-> "audit", GlobalRestrictions |-> << >>,
     PluginRestrictions |-> << >>, GlobalPodRestrictions |-> << >>]

\* Configurations with a rich policy, with rich global restrictions, and with
\* rich plugin restrictions.
CfgPolicyRich ==
    [Policy : {Some(pol) : pol \in CfgPolicySet},
     Restrictions : {Nil, Some(BadRestrictions)},
     EnableDefaultValidator : {FALSE}]

CfgGlobalRich ==
    [Policy : {Nil, Some(GoodPolicy), Some(BadPolicy)},
     Restrictions :
        {Some(rc) : rc \in
            [DefaultAction : {"", RestrictionAllow, RestrictionDeny, "audit"},
             GlobalRestrictions :
                UNION {[1..n -> CfgMutationRestrictionSet] : n \in 0..MaxGlobal},
             PluginRestrictions : {<< >>, << GoodPluginRestriction >>},
             GlobalPodRestrictions : {<< >>}]},
     EnableDefaultValidator : BOOLEAN]

CfgPluginRich ==
    [Policy : {Nil, Some(GoodPolicy)},
     Restrictions :
        {Some(rc) : rc \in
            [DefaultAction : {"", RestrictionDeny},
             GlobalRestrictions : {<< >>, << GoodMutationRestriction >>},
             PluginRestrictions : CfgPluginRestrictionLists,
             GlobalPodRestrictions : {<< >>, << AuditPodRestriction >>}]},
     EnableDefaultValidator : {FALSE}]

ValidationConfigSet == CfgPolicyRich \cup CfgGlobalRich \cup CfgPluginRich

ConfigInit ==
    /\ pc = "validate"
    /\ config \in {Nil} \cup {Some(cfg) : cfg \in ValidationConfigSet}
    /\ result = NoError
    /\ caller = "loader"
    /\ ctxDone = FALSE
    /\ policy = Nil
    /\ restrictions = Nil
    /\ defaultValidator = Nil
    /\ legacyVerdict = "pass"
    /\ req = Nil
    /\ subject = Nil
    /\ validationCtx = Nil
    /\ pending = {}
    /\ trace = <<>>
    /\ GlobIdle
    /\ ExtractIdle
    /\ LoaderIdle

ValidateConfig ==
    /\ pc = "validate"
    /\ result' = validateConfig(config)
    /\ pc' = "validated"
    /\ UNCHANGED <<loaderVars, globVars, extractVars, inputVars, validatorVars,
                   validationCtx, pending, trace>>

ConfigNext == ValidateConfig

SpecConfig == ConfigInit /\ [][ConfigNext]_vars

\* The rules the documentation puts on a configuration.
RuleWellFormed(rule) ==
    /\ rule.Namespaces # << >>
    /\ rule.Plugins # << >>
    /\ rule.Subjects # << >>
    /\ \A sb \in Range(rule.Subjects) :
          sb.Name # "" /\ sb.Kind \in {"User", "Group", "ServiceAccount"}

MutationRestrictionWellFormed(m) ==
    /\ m.Action \in {"allow", "deny"}
    /\ m.Capabilities # << >>
    /\ Range(m.Capabilities) \subseteq AllCapabilities

ConfigWellFormed(cfg) ==
    /\ ~IsNil(cfg)
    /\ ~IsNil(Deref(cfg).Policy) =>
          \A rule \in Range(Deref(Deref(cfg).Policy).Rules) : RuleWellFormed(rule)
    /\ ~IsNil(Deref(cfg).Restrictions) =>
          LET rc == Deref(Deref(cfg).Restrictions)
          IN  /\ rc.DefaultAction \in {"", "allow", "deny"}
              /\ \A g \in Range(rc.GlobalRestrictions) : MutationRestrictionWellFormed(g)
              /\ \A pr \in Range(rc.PluginRestrictions) :
                    /\ pr.PluginPattern # << >>
                    /\ \A m \in Range(pr.MutationRestrictions) :
                          MutationRestrictionWellFormed(m)

\* C10: ValidateConfig returns nil iff the configuration is non-nil, every
\* policy rule has non-empty namespaces, plugins and subjects, every subject
\* has a non-empty name and a kind among User, Group and ServiceAccount,
\* defaultAction is unset, allow or deny, every global and per-plugin
\* MutationRestriction has action allow or deny and a non-empty capability
\* list drawn from the 15 capabilities, and every PluginRestriction has a
\* non-empty pattern; otherwise it returns an error.
C10_ValidateConfigIffWellFormed ==
    pc = "validated" => (~result.err <=> ConfigWellFormed(config))

\* A configuration whose policy is well formed is refused for an unknown
\* capability name in the second mutation restriction of its second plugin
\* restriction.
C10_Witness ==
    /\ pc = "validated"
    /\ ~IsNil(config)
    /\ ~IsNil(Deref(config).Policy)
    /\ result.err
    /\ result.wrap = <<"invalid restrictions", "plugin restriction, mutation restriction">>
    /\ result.msg = "invalid capability"
    /\ result.cap = "bogus"
    /\ result.at = <<1, 1>>

\* Every restriction a configuration holds: mutation and pod restrictions,
\* global and per plugin.
RestrictionActions(rc) ==
    {g.Action : g \in Range(rc.GlobalRestrictions)}
      \cup {g.Action : g \in Range(rc.GlobalPodRestrictions)}
      \cup UNION {{m.Action : m \in Range(pr.MutationRestrictions)}
                    \cup {q.Action : q \in Range(pr.PodRestrictions)} :
                  pr \in Range(rc.PluginRestrictions)}

\* C11: after ValidateConfig succeeds, every restriction held in the
\* configuration, MutationRestriction and PodRestriction alike, global or per
\* plugin, has action allow or deny.
C11_ValidatedActionsAllowOrDeny ==
    (pc = "validated" /\ ~result.err /\ ~IsNil(Deref(config).Restrictions)) =>
        RestrictionActions(Deref(Deref(config).Restrictions)) \subseteq {"allow", "deny"}

\* ------------------------------------------------------------------------
\* Configuration loader: LoadConfigFromDir
\* ------------------------------------------------------------------------

\* var mergedConfig ValidationConfig
ZeroConfig ==
    [Policy |-> Nil, Restrictions |-> Nil, EnableDefaultValidator |-> FALSE,
     DefaultValidatorConfig |-> Nil]

\* A merge in which a field the accumulator already holds is kept.
mergeFileFirstWins(acc, cfg) ==
    [Policy |-> IF IsNil(acc.Policy) THEN cfg.Policy ELSE acc.Policy,
     Restrictions |-> IF IsNil(acc.Restrictions) THEN cfg.Restrictions
                      ELSE acc.Restrictions,
     EnableDefaultValidator |-> acc.EnableDefaultValidator \/ cfg.EnableDefaultValidator,
     DefaultValidatorConfig |-> IF IsNil(acc.DefaultValidatorConfig)
                                THEN cfg.DefaultValidatorConfig
                                ELSE acc.DefaultValidatorConfig]

\* A merge in which every file overwrites the enableDefaultValidator flag.
mergeFileFlagOverwritten(acc, cfg) ==
    [Policy |-> IF ~IsNil(cfg.Policy) THEN cfg.Policy ELSE acc.Policy,
     Restrictions |-> IF ~IsNil(cfg.Restrictions) THEN cfg.Restrictions
                      ELSE acc.Restrictions,
     EnableDefaultValidator |-> cfg.EnableDefaultValidator,
     DefaultValidatorConfig |-> IF ~IsNil(cfg.DefaultValidatorConfig)
                                THEN cfg.DefaultValidatorConfig
                                ELSE acc.DefaultValidatorConfig]

\* LoadConfigFromDir, the merge of one loaded file into mergedConfig
mergeFile(acc, cfg) ==
    [Policy |-> IF ~IsNil(cfg.Policy) THEN cfg.Policy ELSE acc.Policy,
     Restrictions |-> IF ~IsNil(cfg.Restrictions) THEN cfg.Restrictions
                      ELSE acc.Restrictions,
     EnableDefaultValidator |-> IF cfg.EnableDefaultValidator
                                THEN cfg.EnableDefaultValidator
                                ELSE acc.EnableDefaultValidator,
     DefaultValidatorConfig |-> IF ~IsNil(cfg.DefaultValidatorConfig)
                                THEN cfg.DefaultValidatorConfig
                                ELSE acc.DefaultValidatorConfig]

\* LoadConfigFromDir, the loop over files: a file that LoadConfigFromFile
\* cannot read or parse (nil here) ends the load with its error.
RECURSIVE mergeFiles(_, _)
mergeFiles(acc, fs) ==
    IF Len(fs) = 0 THEN [cfg |-> Some(acc), err |-> NoError]
    ELSE IF IsNil(Head(fs))
    THEN [cfg |-> Nil,
          err |-> Wrap("failed to load config from", Errorf("failed to parse config file"))]
    ELSE mergeFiles(mergeFile(acc, Deref(Head(fs))), Tail(fs))

\* LoadConfigFromDir on the files the directory listing yields
loadConfigFromDir(fs) ==
    IF Len(fs) = 0
    THEN [cfg |-> Nil, err |-> Errorf("no config files found")]
    ELSE mergeFiles(ZeroConfig, fs)

\* ------------------------------------------------------------------------
\* Specification of the directory load: every list of up to MaxFiles files,
\* each unparsable or parsed into a ValidationConfig whose fields are absent
\* or present.  An empty mapping parses into an empty, non-nil map.
\* ------------------------------------------------------------------------

MaxFiles == 2

StrictMode == [key \in {"mode"} |-> "strict"]

LaxMode == [key \in {"mode"} |-> "lax"]

FileConfigSet ==
    [Policy : {Nil, Some(GoodPolicy), Some(ZeroPolicy)},
     Restrictions : {Nil, Some(BadRestrictions),
                     Some([BadRestrictions EXCEPT !.DefaultAction = RestrictionDeny])},
     EnableDefaultValidator : BOOLEAN,
     DefaultValidatorConfig : {Nil, Some(EmptyMap), Some(StrictMode), Some(LaxMode)}]

FileSet == {Nil} \cup {Some(cfg) : cfg \in FileConfigSet}

LoadInit ==
    /\ pc = "load"
    /\ files \in UNION {[1..n -> FileSet] : n \in 0..MaxFiles}
    /\ mergedConfig = Nil
    /\ annotations = <<>>
    /\ history = <<>>
    /\ CgroupIdle
    /\ result = NoError
    /\ caller = "loader"
    /\ ctxDone = FALSE
    /\ config = Nil
    /\ policy = Nil
    /\ restrictions = Nil
    /\ defaultValidator = Nil
    /\ legacyVerdict = "pass"
    /\ req = Nil
    /\ subject = Nil
    /\ validationCtx = Nil
    /\ pending = {}
    /\ trace = <<>>
    /\ GlobIdle
    /\ ExtractIdle

LoadConfigFromDir ==
    /\ pc = "load"
    /\ mergedConfig' = loadConfigFromDir(files).cfg
    /\ result' = loadConfigFromDir(files).err
    /\ pc' = "loaded"
    /\ UNCHANGED <<cgroupVars, files, annotations, history, globVars, extractVars, inputVars,
                   validatorVars, validationCtx, pending, trace>>

LoadNext == LoadConfigFromDir

SpecLoad == LoadInit /\ [][LoadNext]_vars

\* The value Get(f) of the last file f of fs that satisfies Sets, or zero.
LastSetting(fs, Sets(_), Get(_), zero) ==
    IF \E i \in 1..Len(fs) : Sets(Deref(fs[i]))
    THEN Get(Deref(fs[CHOOSE i \in 1..Len(fs) :
                        /\ Sets(Deref(fs[i]))
                        /\ \A j \in (i + 1)..Len(fs) : ~Sets(Deref(fs[j]))]))
    ELSE zero

\* The fields a file sets: those present in it.
FieldsSet(cfg) ==
    (IF IsNil(cfg.Policy) THEN {} ELSE {"policy"})
      \cup (IF IsNil(cfg.Restrictions) THEN {} ELSE {"restrictions"})
      \cup (IF cfg.EnableDefaultValidator THEN {"enableDefaultValidator"} ELSE {})
      \cup (IF IsNil(cfg.DefaultValidatorConfig) THEN {} ELSE {"defaultValidatorConfig"})

\* The orderings of the file list fs.
Orderings(fs) ==
    {[i \in 1..Len(fs) |-> fs[perm[i]]] :
        perm \in {f \in [1..Len(fs) -> 1..Len(fs)] :
                     \A i, j \in 1..Len(fs) : i # j => f[i] # f[j]}}

\* The fields on which every reading of the merge rule agrees.
MergedPointerFields(m, fs) ==
    /\ m.Policy = LastSetting(fs, LAMBDA c : ~IsNil(c.Policy), LAMBDA c : c.Policy, Nil)
    /\ m.Restrictions = LastSetting(fs, LAMBDA c : ~IsNil(c.Restrictions),
                                    LAMBDA c : c.Restrictions, Nil)
    /\ m.EnableDefaultValidator = LastSetting(fs, LAMBDA c : c.EnableDefaultValidator,
                                              LAMBDA c : c.EnableDefaultValidator, FALSE)

\* C12 (as stated): each field of the merged configuration equals that
\* field's value in the last file that sets it non-empty (for
\* defaultValidatorConfig: a map with at least one entry), replaced as a whole.
C12_LastNonEmptyWinsAsStated ==
    (pc = "loaded" /\ ~result.err) =>
        /\ MergedPointerFields(Deref(mergedConfig), files)
        /\ Deref(mergedConfig).DefaultValidatorConfig =
              LastSetting(files,
                          LAMBDA c : ~IsNil(c.DefaultValidatorConfig)
                                        /\ DOMAIN Deref(c.DefaultValidatorConfig) # {},
                          LAMBDA c : c.DefaultValidatorConfig, Nil)

\* C12 (amended): each field of the merged configuration equals that field's
\* value in the last file in which it is present (a non-nil policy, a non-nil
\* restrictions record, enableDefaultValidator = true, a non-nil
\* defaultValidatorConfig map, an empty map included), replaced as a whole
\* with no deep merge; files that set pairwise disjoint fields merge to the
\* same result in any order.
C12_LastPresentWins ==
    (pc = "loaded" /\ ~result.err) =>
        /\ MergedPointerFields(Deref(mergedConfig), files)
        /\ Deref(mergedConfig).DefaultValidatorConfig =
              LastSetting(files, LAMBDA c : ~IsNil(c.DefaultValidatorConfig),
                          LAMBDA c : c.DefaultValidatorConfig, Nil)
        /\ (\A i, j \in 1..Len(files) :
               i # j => FieldsSet(Deref(files[i])) \cap FieldsSet(Deref(files[j])) = {})
             => \A fs \in Orderings(files) : loadConfigFromDir(fs).cfg = mergedConfig

\* Two files both set policy and defaultValidatorConfig, the second with an
\* empty map, and only the first sets restrictions: the merged configuration
\* holds the second policy, the empty map and the first restrictions.
C12_Witness ==
    /\ pc = "loaded"
    /\ ~result.err
    /\ Len(files) = 2
    /\ Deref(files[1]).Policy = Some(GoodPolicy)
    /\ Deref(files[2]).Policy = Some(ZeroPolicy)
    /\ Deref(files[1]).DefaultValidatorConfig = Some(StrictMode)
    /\ Deref(files[2]).DefaultValidatorConfig = Some(EmptyMap)
    /\ ~IsNil(Deref(files[1]).Restrictions)
    /\ IsNil(Deref(files[2]).Restrictions)
    /\ Deref(mergedConfig).Policy = Some(ZeroPolicy)
    /\ Deref(mergedConfig).DefaultValidatorConfig = Some(EmptyMap)
    /\ Deref(mergedConfig).Restrictions = Deref(files[1]).Restrictions

\* ------------------------------------------------------------------------
\* Specification of a session: one validator, built once from the
\* configuration, serves one request after another.  history collects the
\* policy decisions of the completed calls.
\* ------------------------------------------------------------------------

\* The policy decisions a call made: for each evaluated policy check the
\* namespace, the mutator name, the subject and whether access was granted.
Decisions(tr, vctx) ==
    {[Namespace |-> Deref(vctx).PodNamespace, PluginName |-> tr[i].plugin,
      Subject |-> Deref(vctx).Subject, Allowed |-> tr[i].ok] :
        i \in {k \in 1..Len(tr) : tr[k].check = "access"}}

SessionPolicySet ==
    {[DefaultDeny |-> TRUE, Rules |-> << CpuRule >>],
     [DefaultDeny |-> TRUE, Rules |-> << DevRule >>]}

SessionConfigSet ==
    [Policy : {Some(pol) : pol \in SessionPolicySet},
     Restrictions : {Nil,
                     Some([DefaultAction |-> "", GlobalRestrictions |-> << DenyNamespaces >>,
                           PluginRestrictions |-> << >>, GlobalPodRestrictions |-> << >>])},
     EnableDefaultValidator : {FALSE}]

SessionRequestSet ==
    [Pod : {Some(pod) : pod \in PodSet},
     Adjust : {Nil, Some([EmptyAdjustment EXCEPT !.Linux = Some(NamespacesOnly)])},
     Plugins : (SUBSET PluginNameSet) \ {{}}]

SessionSubjectSet == {Nil, Some([Kind |-> "User", Name |-> "developer"])}

SessionInit ==
    /\ pc = "start"
    /\ caller \in {"plugin", "embedder"}
    /\ ctxDone = FALSE
    /\ config \in SessionConfigSet
    /\ legacyVerdict = "pass"
    /\ req \in SessionRequestSet
    /\ subject \in SessionSubjectSet
    /\ policy = Nil
    /\ restrictions = Nil
    /\ defaultValidator = Nil
    /\ validationCtx = Nil
    /\ pending = {}
    /\ trace = <<>>
    /\ result = NoError
    /\ files = <<>>
    /\ mergedConfig = Nil
    /\ annotations = <<>>
    /\ history = {}
    /\ CgroupIdle
    /\ GlobIdle
    /\ ExtractIdle

\* The caller logs the decisions of the call that returned and makes the
\* next call on the same validator.  The manager builds a fresh context per
\* call; an embedder passes a fresh one, or the context object of its
\* previous call with the new subject and pod written into it.
NextCall ==
    /\ pc = "done"
    /\ history' = history \cup Decisions(trace, validationCtx)
    /\ req' \in SessionRequestSet
    /\ subject' \in SessionSubjectSet
    /\ IF caller = "plugin"
       THEN /\ validationCtx' = Nil
            /\ pc' = "vm.validate"
       ELSE /\ validationCtx' \in
                 {Some(NewValidationContext(subject', req'.Pod))}
                   \cup (IF IsNil(validationCtx) THEN {}
                         ELSE {Some([NewValidationContext(subject', req'.Pod) EXCEPT
                                        !.PluginName = Deref(validationCtx).PluginName])})
            /\ pc' = "ev.default"
    /\ pending' = {}
    /\ trace' = <<>>
    /\ result' = NoError
    /\ UNCHANGED <<cgroupVars, files, mergedConfig, annotations, globVars, extractVars, caller,
                   config, legacyVerdict, ctxDone, validatorVars>>

SessionNext ==
    \/ NewValidationManager
    \/ ManagerValidateContainerAdjustment
    \/ NewExtendedValidator
    \/ EVDefaultValidation
    \/ PVPodCheck
    \/ RVPodCheck
    \/ RVPlugin
    \/ PVAfterRestrictions
    \/ PVPolicy
    \/ NextCall

SpecSession == SessionInit /\ [][SessionNext]_vars

\* Every policy decision made so far, in completed calls and in the running one.
AllDecisions == history \cup Decisions(trace, validationCtx)

\* C13: validation is stateless.  No step changes the loaded configuration,
\* and once the validator is built no step changes the policy and the
\* restrictions it holds, which are those of the configuration; two policy
\* decisions for the same namespace, mutator name and subject are the same,
\* whatever calls were made in between.
C13_Stateless ==
    /\ [](pc # "start" => /\ policy = PolicyOf(config)
                          /\ restrictions = config.Restrictions)
    /\ [](\A d1, d2 \in AllDecisions :
            (/\ d1.Namespace = d2.Namespace
             /\ d1.PluginName = d2.PluginName
             /\ d1.Subject = d2.Subject) => d1.Allowed = d2.Allowed)
    /\ [][config' = config]_vars

\* A later call repeats a decision of an earlier call, and calls that were
\* granted and calls that were refused lie behind.
C13_Witness ==
    /\ pc = "done"
    /\ \E d \in history : d.Allowed
    /\ \E d \in history : ~d.Allowed
    /\ Cardinality(history) >= 4
    /\ Decisions(trace, validationCtx) # {}
    /\ Decisions(trace, validationCtx) \subseteq history

\* ------------------------------------------------------------------------
\* Subject resolution: extractSubjectFromPod of the policy-validator plugin
\* ------------------------------------------------------------------------

\* value, exists := annotations[key] on a map that may be nil
Exists(ann, key) == ~IsNil(ann) /\ key \in DOMAIN Deref(ann)

\* A resolution that looks at the group annotation before the user annotation.
extractSubjectFromPodGroupFirst(ann) ==
    IF Exists(ann, "nri.io/group")
    THEN Some([Kind |-> "Group", Name |-> Deref(ann)["nri.io/group"]])
    ELSE IF Exists(ann, "nri.io/user")
    THEN Some([Kind |-> "User", Name |-> Deref(ann)["nri.io/user"]])
    ELSE Some([Kind |-> "ServiceAccount",
               Name |-> IF Exists(ann, "nri.io/service-account")
                        THEN Deref(ann)["nri.io/service-account"] ELSE "default"])

\* extractSubjectFromPod
extractSubjectFromPod(ann) ==
    IF Exists(ann, "nri.io/user")
    THEN Some([Kind |-> "User", Name |-> Deref(ann)["nri.io/user"]])
    ELSE IF Exists(ann, "nri.io/group")
    THEN Some([Kind |-> "Group", Name |-> Deref(ann)["nri.io/group"]])
    ELSE LET serviceAccount == IF Exists(ann, "nri.io/service-account")
                               THEN Deref(ann)["nri.io/service-account"]
                               ELSE "default"
         IN  Some([Kind |-> "ServiceAccount", Name |-> serviceAccount])

\* ------------------------------------------------------------------------
\* Specification of subject resolution: every annotation map over
\* AnnotationKeys and AnnotationValues, and the nil map of a pod without
\* annotations.
\* ------------------------------------------------------------------------

AnnotationKeys == {"nri.io/user", "nri.io/group", "nri.io/service-account", "app"}

AnnotationValues == {"", "developer", "default"}

AnnotationMaps == UNION {[keys -> AnnotationValues] : keys \in SUBSET AnnotationKeys}

SubjectInit ==
    /\ pc = "subject"
    /\ annotations \in {Nil} \cup {Some(m) : m \in AnnotationMaps}
    /\ subject = Nil
    /\ files = <<>>
    /\ mergedConfig = Nil
    /\ history = <<>>
    /\ CgroupIdle
    /\ result = NoError
    /\ caller = "plugin"
    /\ ctxDone = FALSE
    /\ config = Nil
    /\ policy = Nil
    /\ restrictions = Nil
    /\ defaultValidator = Nil
    /\ legacyVerdict = "pass"
    /\ req = Nil
    /\ validationCtx = Nil
    /\ pending = {}
    /\ trace = <<>>
    /\ GlobIdle
    /\ ExtractIdle

ExtractSubjectFromPod ==
    /\ pc = "subject"
    /\ subject' = extractSubjectFromPod(annotations)
    /\ pc' = "resolved"
    /\ UNCHANGED <<cgroupVars, files, mergedConfig, annotations, history, globVars, extractVars,
                   caller, config, legacyVerdict, req, ctxDone, validatorVars,
                   callVars>>

SubjectNext == ExtractSubjectFromPod

SpecSubject == SubjectInit /\ [][SubjectNext]_vars

\* The annotation key is present in the pod's annotation map.
Annotated(key) == ~IsNil(annotations) /\ key \in DOMAIN Deref(annotations)

\* C14: subject resolution returns exactly one non-nil subject for every
\* annotation map: kind User with the value of nri.io/user if that key is
\* present; otherwise kind Group with the value of nri.io/group if present;
\* otherwise kind ServiceAccount with the value of nri.io/service-account, or
\* the name "default" when that key is absent.
C14_SubjectResolution ==
    pc = "resolved" =>
        /\ Len(subject) = 1
        /\ Annotated("nri.io/user") =>
              subject[1] = [Kind |-> "User", Name |-> annotations[1]["nri.io/user"]]
        /\ (~Annotated("nri.io/user") /\ Annotated("nri.io/group")) =>
              subject[1] = [Kind |-> "Group", Name |-> annotations[1]["nri.io/group"]]
        /\ (/\ ~Annotated("nri.io/user")
            /\ ~Annotated("nri.io/group")
            /\ Annotated("nri.io/service-account")) =>
              subject[1] = [Kind |-> "ServiceAccount",
                            Name |-> annotations[1]["nri.io/service-account"]]
        /\ (/\ ~Annotated("nri.io/user")
            /\ ~Annotated("nri.io/group")
            /\ ~Annotated("nri.io/service-account")) =>
              subject[1] = [Kind |-> "ServiceAccount", Name |-> "default"]

\* A pod annotated with a user, a group and a service account resolves to
\* the user, here one with an empty name.
C14_Witness ==
    /\ pc = "resolved"
    /\ Annotated("nri.io/user")
    /\ Annotated("nri.io/group")
    /\ Annotated("nri.io/service-account")
    /\ annotations[1]["nri.io/user"] = ""
    /\ annotations[1]["nri.io/group"] = "developer"
    /\ subject = <<[Kind |-> "User", Name |-> ""]>>

\* The messages of the two denials validatePluginAccess can return.
AccessDenials ==
    {"access denied: no matching rules found and defaultDeny is true",
     "access denied: no rule allows this subject/plugin combination"}

\* C15: a missing subject never satisfies a grant.  For a context whose
\* Subject is nil no rule grants access, whatever its subject list; with
\* defaultDeny = true the Policy Engine denies for every rule list, and the
\* evaluation ends with a decision: nil or one of the two denials.
C15_NilSubjectNeverGranted ==
    (pc = "accessed" /\ IsNil(Deref(validationCtx).Subject)) =>
        /\ \A rule \in Range(policy.Rules) :
              ~subjectAllowed(Deref(validationCtx).Subject, rule.Subjects)
        /\ policy.DefaultDeny => result.err
        /\ result.err => result.msg \in AccessDenials
        /\ ~result.err => result = NoError

\* A default-deny policy has a rule that matches the namespace and the
\* plugin of a context without subject and lists subjects: access is denied
\* because no rule allows the combination.
C15_Witness ==
    /\ pc = "accessed"
    /\ IsNil(Deref(validationCtx).Subject)
    /\ policy.DefaultDeny
    /\ \E rule \in Range(policy.Rules) :
          /\ AnyMatches(rule.Namespaces, Deref(validationCtx).PodNamespace)
          /\ AnyMatches(rule.Plugins, Deref(validationCtx).PluginName)
          /\ Len(rule.Subjects) = 2
    /\ result.err
    /\ result.msg = "access denied: no rule allows this subject/plugin combination"

\* Every global MutationRestriction, and every MutationRestriction of every
\* PluginRestriction whose pattern matches the mutator name, passes on its
\* own for the capability set.
MutationsPass(rc, pluginName, capset) ==
    /\ \A g \in Range(rc.GlobalRestrictions) : MutationRestrictionPasses(g, capset)
    /\ \A pr \in Range(rc.PluginRestrictions) :
          GlobSemantics(pr.PluginPattern, pluginName) =>
             \A m \in Range(pr.MutationRestrictions) : MutationRestrictionPasses(m, capset)

\* The configuration without the PluginRestrictions that do not match the mutator.
WithoutOthers(rc, pluginName) ==
    [rc EXCEPT !.PluginRestrictions =
        SelectSeq(@, LAMBDA pr : GlobSemantics(pr.PluginPattern, pluginName))]

\* C16: mutation restrictions are a conjunction with no allowlist
\* accumulation.  For every mutator name and adjustment, validatePluginMutations
\* passes iff every global MutationRestriction and every MutationRestriction of
\* every PluginRestriction whose pattern matches the mutator name passes on its
\* own (deny: no extracted capability is listed; allow: every extracted
\* capability is listed); PluginRestrictions whose pattern does not match the
\* mutator name have no effect on the result.
C16_MutationsConjunction ==
    LET rc     == Deref(restrictions)
        capset == Range(extractMutationCapabilities(req.Adjust))
    IN  /\ \A pluginName \in PluginNameSet :
              /\ ~validatePluginMutations(rc, pluginName, req.Adjust).err
                    <=> MutationsPass(rc, pluginName, capset)
              /\ validatePluginMutations(WithoutOthers(rc, pluginName), pluginName,
                                         req.Adjust)
                    = validatePluginMutations(rc, pluginName, req.Adjust)
        /\ \A i \in 1..Len(trace) :
              trace[i].check = "mutations" =>
                 (trace[i].ok <=> MutationsPass(rc, trace[i].plugin, capset))

\* Two allow lists apply to the checked mutator, a global one and one of a
\* matching PluginRestriction; every extracted capability is in one of the
\* two lists, and the check fails because one list lacks a capability.  A
\* PluginRestriction that does not match the mutator is configured as well.
C16_Witness ==
    LET rc     == Deref(restrictions)
        capset == Range(extractMutationCapabilities(req.Adjust))
    IN  /\ pc = "rv.return"
        /\ Len(trace) = 1
        /\ trace[1].check = "mutations"
        /\ ~trace[1].ok
        /\ result.msg = "mutation capability not in allowlist"
        /\ capset # {}
        /\ \A g \in Range(rc.GlobalRestrictions) : g.Action = "allow"
        /\ Len(rc.GlobalRestrictions) > 0
        /\ \E pr \in Range(rc.PluginRestrictions) :
              /\ GlobSemantics(pr.PluginPattern, trace[1].plugin)
              /\ \E m \in Range(pr.MutationRestrictions) : m.Action = "allow"
        /\ \E pr \in Range(rc.PluginRestrictions) :
              ~GlobSemantics(pr.PluginPattern, trace[1].plugin)
        /\ capset \subseteq
              UNION ({Range(g.Capabilities) : g \in Range(rc.GlobalRestrictions)}
                       \cup {Range(m.Capabilities) :
                               m \in UNION {Range(pr.MutationRestrictions) :
                                              pr \in Range(rc.PluginRestrictions)}})

\* Every global PodRestriction, and every PodRestriction of every
\* PluginRestriction whose pattern matches the mutator name, passes for the pod.
PodAccessPasses(rc, pluginName, pod) ==
    /\ \A g \in Range(rc.GlobalPodRestrictions) : PodRestrictionPasses(g, pod)
    /\ \A pr \in Range(rc.PluginRestrictions) :
          GlobSemantics(pr.PluginPattern, pluginName) =>
             \A q \in Range(pr.PodRestrictions) : PodRestrictionPasses(q, pod)

\* C17: pod admission.  For every mutator name and pod, validatePodAccess
\* passes iff for every global PodRestriction and every PodRestriction of
\* every PluginRestriction matching the mutator name, an allow restriction's
\* selector matches the pod and a deny restriction's selector does not.
C17_PodAdmission ==
    LET rc == Deref(restrictions)
    IN  /\ \A pluginName \in PluginNameSet : \A pod \in PodSet :
              ~validatePodAccess(rc, pluginName, pod).err
                 <=> PodAccessPasses(rc, pluginName, pod)
        /\ \A i \in 1..Len(trace) :
              trace[i].check = "podaccess" =>
                 (trace[i].ok <=> PodAccessPasses(rc, trace[i].plugin, Deref(req.Pod)))

\* A global allow restriction admits the pod, and a deny restriction of a
\* PluginRestriction that matches the checked mutator refuses it.
C17_Witness ==
    LET rc == Deref(restrictions)
    IN  /\ pc = "rv.return"
        /\ Len(trace) >= 2
        /\ trace[Len(trace)].check = "podaccess"
        /\ ~trace[Len(trace)].ok
        /\ result.msg = "pod is in denylist"
        /\ Len(rc.GlobalPodRestrictions) = 1
        /\ rc.GlobalPodRestrictions[1].Action = "allow"
        /\ PodRestrictionPasses(rc.GlobalPodRestrictions[1], Deref(req.Pod))
        /\ \E pr \in Range(rc.PluginRestrictions) :
              /\ GlobSemantics(pr.PluginPattern, trace[Len(trace)].plugin)
              /\ \E q \in Range(pr.PodRestrictions) :
                    q.Action = "deny" /\ SelectorMatches(q.Selector, Deref(req.Pod))

\* ------------------------------------------------------------------------
\* Specification of the pod selector: a RestrictionsValidator with one
\* global PodRestriction, whose selector ranges over SelectorSet, validates
\* a request of one plugin for every pod of SelectorPodSet.
\* ------------------------------------------------------------------------

LabelMaps ==
    {EmptyMap, SandboxLabels,
     [key \in {"tier", "team"} |-> IF key = "tier" THEN "sandbox" ELSE "a"],
     [key \in {"tier", "team"} |-> IF key = "tier" THEN "prod" ELSE "a"],
     [key \in {"team"} |-> ""]}

SelectorSet ==
    [Namespaces : {<< >>, << <<"p">> >>, << <<"x">>, <<"d", "*">> >>},
     Labels : LabelMaps,
     Names : {<< >>, << <<"w">> >>, << <<"*", "b">> >>, << Star >>}]

SelectorPodSet ==
    [Namespace : {<<"d", "t">>, <<"p">>}, Name : {<<"w">>, <<"a", "b">>},
     Labels : LabelMaps]

SelectorInit ==
    /\ pc = "rv.pod"
    /\ restrictions \in
          {Some([DefaultAction |-> "", GlobalRestrictions |-> << >>,
                 PluginRestrictions |-> << >>,
                 GlobalPodRestrictions |-> << [Action |-> a, Selector |-> sel] >>]) :
             a \in {RestrictionAllow, RestrictionDeny}, sel \in SelectorSet}
    /\ req \in [Pod : {Some(pod) : pod \in SelectorPodSet}, Adjust : {Nil},
                Plugins : {{<<"c">>}}]
    /\ pending = {}
    /\ trace = <<>>
    /\ result = NoError
    /\ caller = "test"
    /\ ctxDone = FALSE
    /\ config = Nil
    /\ policy = Nil
    /\ defaultValidator = Nil
    /\ legacyVerdict = "pass"
    /\ subject = Nil
    /\ validationCtx = Nil
    /\ GlobIdle
    /\ ExtractIdle
    /\ LoaderIdle

SelectorNext == RVPodCheck \/ RVPlugin

SpecSelector == SelectorInit /\ [][SelectorNext]_vars

\* The selector of the configured pod restriction, and its action.
TheSelector == Deref(restrictions).GlobalPodRestrictions[1].Selector

TheAction == Deref(restrictions).GlobalPodRestrictions[1].Action

\* C18: a pod matches a selector iff (the namespace list is empty or some
\* namespace pattern matches the pod namespace) and (every selector label key
\* is present in the pod labels with an equal value) and (the name list is
\* empty or some name pattern matches the pod name); a selector with all
\* fields empty matches every pod.
C18_PodSelector ==
    LET pod == Deref(req.Pod)
    IN  /\ podMatches(TheSelector, pod) <=>
              /\ (TheSelector.Namespaces = << >>
                    \/ \E ns \in Range(TheSelector.Namespaces) :
                          GlobSemantics(ns, pod.Namespace))
              /\ \A key \in DOMAIN TheSelector.Labels :
                    key \in DOMAIN pod.Labels /\ pod.Labels[key] = TheSelector.Labels[key]
              /\ (TheSelector.Names = << >>
                    \/ \E n \in Range(TheSelector.Names) : GlobSemantics(n, pod.Name))
        /\ (/\ TheSelector.Namespaces = << >>
            /\ DOMAIN TheSelector.Labels = {}
            /\ TheSelector.Names = << >>) => podMatches(TheSelector, pod)
        /\ pc = "rv.return" =>
              (result.err <=> (TheAction = "allow" <=> ~podMatches(TheSelector, pod)))

\* A selector with two labels, namespace patterns and name patterns refuses
\* a pod that carries one of the two labels with the selector's value and
\* matches the namespace and name patterns: an allow restriction fails.
C18_Witness ==
    LET pod == Deref(req.Pod)
    IN  /\ pc = "rv.return"
        /\ TheAction = "allow"
        /\ result.err
        /\ Cardinality(DOMAIN TheSelector.Labels) = 2
        /\ \E key \in DOMAIN TheSelector.Labels :
              key \in DOMAIN pod.Labels /\ pod.Labels[key] = TheSelector.Labels[key]
        /\ Len(TheSelector.Namespaces) = 2
        /\ AnyMatches(TheSelector.Namespaces, pod.Namespace)
        /\ Len(TheSelector.Names) = 1
        /\ AnyMatches(TheSelector.Names, pod.Name)

\* ------------------------------------------------------------------------
\* Specification of the mutation checks on adjustments that exercise few or
\* no capabilities: a RestrictionsValidator with one global restriction and
\* one restriction for every plugin validates the nil adjustment and
\* adjustments whose fields are nil, empty or, for Env and namespaces, set.
\* ------------------------------------------------------------------------

QuietColl == {"nil", "empty"}

QuietAdjustSet ==
    {Nil} \cup
    {Some(a) : a \in
        [Annotations : QuietColl, Mounts : {"nil"}, Args : {"empty"}, Env : Coll,
         Hooks : {"nil"}, Rlimits : QuietColl,
         Linux : {Nil} \cup
                 {Some(l) : l \in [Devices : QuietColl, Resources : {Nil},
                                   Namespaces : Coll]}]}

\* allow restrictions with any list, deny restrictions with a non-empty list
QuietRestrictionSet ==
    {r \in [Action : {RestrictionAllow, RestrictionDeny},
            Capabilities : {<< >>, <<MutationNamespaces>>,
                            <<MutationEnv, MutationAnnotations>>, validCapabilities}] :
        r.Action = RestrictionDeny => Len(r.Capabilities) > 0}

QuietInit ==
    /\ pc = "rv.pod"
    /\ restrictions \in
          {Some([DefaultAction |-> "", GlobalRestrictions |-> << g >>,
                 PluginRestrictions |->
                    << [PluginPattern |-> Star, MutationRestrictions |-> << m >>,
                        PodRestrictions |-> << >>] >>,
                 GlobalPodRestrictions |-> << >>]) :
             g \in QuietRestrictionSet, m \in QuietRestrictionSet}
    /\ req \in [Pod : {Some(pod) : pod \in PodSet}, Adjust : QuietAdjustSet,
                Plugins : {{<<"c">>}}]
    /\ pending = {}
    /\ trace = <<>>
    /\ result = NoError
    /\ caller = "test"
    /\ ctxDone = FALSE
    /\ config = Nil
    /\ policy = Nil
    /\ defaultValidator = Nil
    /\ legacyVerdict = "pass"
    /\ subject = Nil
    /\ validationCtx = Nil
    /\ GlobIdle
    /\ ExtractIdle
    /\ LoaderIdle

QuietNext == RVPodCheck \/ RVPlugin

SpecQuiet == QuietInit /\ [][QuietNext]_vars

\* C19: for every adjustment whose extracted capability set is empty, the
\* nil adjustment included, every deny MutationRestriction with a non-empty
\* capability list passes and every allow MutationRestriction passes, so the
\* mutation-capability checks never deny such an adjustment.
C19_EmptyCapabilitiesPass ==
    extractMutationCapabilities(req.Adjust) = << >> =>
        /\ \A r \in QuietRestrictionSet :
              ~checkMutationRestriction(r, extractMutationCapabilities(req.Adjust)).err
        /\ \A pluginName \in PluginNameSet :
              ~validatePluginMutations(Deref(restrictions), pluginName, req.Adjust).err
        /\ \A i \in 1..Len(trace) : trace[i].check = "mutations" => trace[i].ok
        /\ pc = "rv.return" => ~result.err

\* An adjustment with a Linux part and empty, non-nil collections passed an
\* allow list without entries and a deny list of all capabilities.
C19_Witness ==
    /\ pc = "rv.return"
    /\ ~IsNil(req.Adjust)
    /\ Deref(req.Adjust).Env = "empty"
    /\ ~IsNil(Deref(req.Adjust).Linux)
    /\ Deref(Deref(req.Adjust).Linux).Namespaces = "empty"
    /\ extractMutationCapabilities(req.Adjust) = << >>
    /\ Deref(restrictions).GlobalRestrictions[1] =
          [Action |-> "allow", Capabilities |-> << >>]
    /\ Deref(restrictions).PluginRestrictions[1].MutationRestrictions[1] =
          [Action |-> "deny", Capabilities |-> validCapabilities]
    /\ Len(trace) = 2
    /\ trace[1].check = "mutations"
    /\ trace[1].ok
    /\ ~result.err

\* The restrictions validator built from rc refuses the request r: for
\* whichever plugin the range loop yields first.
RestrictionsRefuse(rc, r) ==
    \/ IsNil(r.Pod)
    \/ \E pluginName \in GetPluginMap(r) :
          \/ validatePluginMutations(rc, pluginName, r.Adjust).err
          \/ validatePodAccess(rc, pluginName, Deref(r.Pod)).err

\* No restriction of rc applies to a plugin of the request r.
NoRestrictionApplies(rc, r) ==
    /\ rc.GlobalRestrictions = << >>
    /\ rc.GlobalPodRestrictions = << >>
    /\ \A pr \in Range(rc.PluginRestrictions) : \A pluginName \in GetPluginMap(r) :
          ~GlobSemantics(pr.PluginPattern, pluginName)

NestedCapabilities ==
    {MutationMemory, MutationCPU, MutationBlockIO, MutationRDT, MutationUnified}

\* The sub-field of linux.Resources a nested capability stands for holds
\* something: a non-nil memory or cpu block, a class with a value, a unified
\* map with an entry.
SubFieldSet(res, cap) ==
    CASE cap = MutationMemory -> res.Memory = "set"
      [] cap = MutationCPU -> res.Cpu = "set"
      [] cap = MutationBlockIO -> res.BlockioClass = "set"
      [] cap = MutationRDT -> res.RdtClass = "set"
      [] cap = MutationUnified -> res.Unified = "set"

\* C21: each of memory, cpu, blockio, rdt and unified is reported exactly
\* when its own sub-field holds something, whatever the other four are;
\* whenever one of them is reported, resources is reported too; a
\* memory-only change yields both resources and memory and no other nested
\* capability.
C21_NestedResources ==
    pc = "extracted" =>
        LET res == GetResources(adjust)
        IN  /\ \A cap \in NestedCapabilities :
                  /\ SliceContains(capabilities, cap)
                        <=> (~IsNil(res) /\ SubFieldSet(Deref(res), cap))
                  /\ SliceContains(capabilities, cap)
                        => SliceContains(capabilities, MutationResources)
            /\ (/\ ~IsNil(res)
                /\ \A cap \in NestedCapabilities :
                      SubFieldSet(Deref(res), cap) <=> cap = MutationMemory)
               => /\ SliceContains(capabilities, MutationResources)
                  /\ SliceContains(capabilities, MutationMemory)
                  /\ \A cap \in NestedCapabilities \ {MutationMemory} :
                        ~SliceContains(capabilities, cap)

\* A memory-only change has been extracted: resources and memory are both
\* in the result, with blockio set to an empty class and not reported.
C21_Witness ==
    /\ pc = "extracted"
    /\ ~IsNil(GetResources(adjust))
    /\ Deref(GetResources(adjust)).Memory = "set"
    /\ Deref(GetResources(adjust)).Cpu = "nil"
    /\ Deref(GetResources(adjust)).BlockioClass = "empty"
    /\ Deref(GetResources(adjust)).Unified = "empty"
    /\ SliceContains(capabilities, MutationResources)
    /\ SliceContains(capabilities, MutationMemory)
    /\ ~SliceContains(capabilities, MutationBlockIO)

\* ------------------------------------------------------------------------
\* C22: the ValidationContext of a mutator's evaluation
\* ------------------------------------------------------------------------

\* C22: a fresh ValidationContext is created for each validated mutator
\* within a request: the context record a mutator's policy evaluation
\* starts from carries no plugin name written by the evaluation of another
\* mutator of the request; nothing is written into a record shared between
\* mutators.
C22_FreshContextPerMutator ==
    (pc = "pv.policy" /\ ~IsNil(validationCtx))
        => Deref(validationCtx).PluginName = <<>>

\* ------------------------------------------------------------------------
\* C23: cancellation of the request context
\* Specification: the validation pipeline of Spec, called with a context
\* that is live or already cancelled when the call is made.
\* ------------------------------------------------------------------------

CancelInit ==
    /\ pc = "start"
    /\ caller \in {"plugin", "embedder"}
    /\ ctxDone \in BOOLEAN
    /\ config \in ConfigSet
    /\ legacyVerdict \in {"pass", "fail"}
    /\ req \in RequestSet
    /\ subject \in {Nil} \cup {Some(sb) : sb \in SubjectSet}
    /\ policy = Nil
    /\ restrictions = Nil
    /\ defaultValidator = Nil
    /\ validationCtx = Nil
    /\ pending = {}
    /\ trace = <<>>
    /\ result = NoError
    /\ GlobIdle
    /\ ExtractIdle
    /\ LoaderIdle

SpecCancel == CancelInit /\ [][Next]_vars

\* C23: cancellation is checked before each mutator's evaluation begins:
\* when the request context is already cancelled, no restriction check and
\* no policy check of any mutator is started.
C23_CancelledStartsNoCheck ==
    ctxDone =>
        \A i \in 1..Len(trace) :
            trace[i].check \notin {"mutations", "podaccess", "access"}

\* ------------------------------------------------------------------------
\* Cgroup path resolution (pkg/plugin/cgroup.go, as cgroup_test.go shows it)
\* A path is a sequence of tokens: a name character, the text ".slice", the
\* separator "/" and the colon ":".
\* ------------------------------------------------------------------------

Slash == <<"/">>

Colon == <<":">>

DotSlice == <<".slice">>

\* strings.Index for a one-token separator; 0 when absent
stringsIndex(s, sep) ==
    IF \E i \in 1..Len(s) : s[i] = sep[1]
    THEN CHOOSE i \in 1..Len(s) : s[i] = sep[1] /\ \A j \in 1..(i - 1) : s[j] # sep[1]
    ELSE 0

\* strings.Split
RECURSIVE stringsSplit(_, _)
stringsSplit(s, sep) ==
    LET i == stringsIndex(s, sep)
    IN  IF i = 0 THEN << s >>
        ELSE << SubSeq(s, 1, i - 1) >> \o stringsSplit(SubSeq(s, i + 1, Len(s)), sep)

\* strings.Join
RECURSIVE stringsJoin(_, _)
stringsJoin(elems, sep) ==
    IF elems = << >> THEN << >>
    ELSE IF Len(elems) = 1 THEN elems[1]
    ELSE elems[1] \o sep \o stringsJoin(Tail(elems), sep)

\* filepath.Clean, the rule that replaces several separators by one
RECURSIVE squeezeSeparators(_)
squeezeSeparators(p) ==
    IF Len(p) < 2 THEN p
    ELSE IF p[1] = "/" /\ p[2] = "/" THEN squeezeSeparators(Tail(p))
    ELSE << p[1] >> \o squeezeSeparators(Tail(p))

\* filepath.Clean on paths without "." and ".." elements: one separator
\* between elements, no trailing separator unless the path is the root, and
\* "." for the empty path.
filepathClean(p) ==
    IF p = << >> THEN << "." >>
    ELSE LET q == squeezeSeparators(p)
         IN  IF Len(q) > 1 /\ q[Len(q)] = "/" THEN SubSeq(q, 1, Len(q) - 1) ELSE q

\* filepath.Join: empty elements are ignored, the rest is joined by the
\* separator and cleaned; no non-empty element gives the empty string.
filepathJoin(elems) ==
    LET nonEmpty == SelectSeq(elems, LAMBDA el : el # << >>)
    IN  IF nonEmpty = << >> THEN << >>
        ELSE filepathClean(stringsJoin(nonEmpty, Slash))

\* isSystemdPath
isSystemdPath(path) == Contains(path, DotSlice) \/ Contains(path, Colon)

\* A conversion that turns every colon into a separator.
convertSystemdPathEveryColon(root, systemdPath) ==
    filepathJoin(<< root >> \o stringsSplit(systemdPath, Colon))

\* convertSystemdPath
convertSystemdPath(root, systemdPath) ==
    LET parts == stringsSplit(systemdPath, Colon)
    IN  IF Len(parts) > 1
        THEN LET slicePath      == parts[1]
                 finalComponent == stringsJoin(Tail(parts), Colon)
             IN  filepathJoin(<< root, slicePath, finalComponent >>)
        ELSE filepathJoin(<< root, systemdPath >>)

\* resolveCgroupPath
resolveCgroupPath(root, path) ==
    IF isSystemdPath(path)
    THEN convertSystemdPath(root, path)
    ELSE filepathJoin(<< root, path >>)

\* ------------------------------------------------------------------------
\* Specification of the resolver: every path of up to MaxPath tokens is
\* resolved under each cgroup root, the directory existing on disk or not.
\* ------------------------------------------------------------------------

MaxPath == 4

PathTokens == {"a", "b", ".slice", "/", ":"}

CgroupPathSet == UNION {[1..n -> PathTokens] : n \in 0..MaxPath}

CgroupRootSet == {<<"/">>, <<"/", "r">>, <<"/", "r", "/", "g">>}

CgroupInit ==
    /\ pc = "resolve"
    /\ cgroupRoot \in CgroupRootSet
    /\ cgroupPath \in CgroupPathSet
    /\ onDisk \in BOOLEAN
    /\ resolvedPath = << >>
    /\ files = << >>
    /\ mergedConfig = Nil
    /\ annotations = << >>
    /\ history = << >>
    /\ GlobIdle
    /\ ExtractIdle
    /\ PipelineIdle

ResolveCgroupPath ==
    /\ pc = "resolve"
    /\ resolvedPath' = resolveCgroupPath(cgroupRoot, cgroupPath)
    /\ pc' = "resolved"
    /\ UNCHANGED <<cgroupRoot, cgroupPath, onDisk, files, mergedConfig, annotations,
                   history, globVars, extractVars, inputVars, validatorVars, callVars>>

CgroupNext == ResolveCgroupPath

SpecCgroup == CgroupInit /\ [][CgroupNext]_vars

\* The elements of a path: the maximal runs of tokens other than "/".
RECURSIVE Elements(_)
Elements(p) ==
    IF p = << >> THEN << >>
    ELSE IF p[1] = "/" THEN Elements(Tail(p))
    ELSE LET n == IF \E i \in 1..Len(p) : p[i] = "/"
                  THEN (CHOOSE i \in 1..Len(p) :
                            p[i] = "/" /\ \A j \in 1..(i - 1) : p[j] # "/") - 1
                  ELSE Len(p)
         IN  << SubSeq(p, 1, n) >> \o Elements(SubSeq(p, n + 1, Len(p)))

\* The absolute path that has the given elements.
RECURSIVE Rooted(_)
Rooted(elements) ==
    IF elements = << >> THEN << >>
    ELSE <<"/">> \o elements[1] \o Rooted(Tail(elements))

AbsolutePath(elements) == IF elements = << >> THEN <<"/">> ELSE Rooted(elements)

HasColon(p) == \E i \in 1..Len(p) : p[i] = ":"

PositionOfFirstColon(p) == CHOOSE i \in 1..Len(p) : p[i] = ":" /\ ~HasColon(SubSeq(p, 1, i - 1))

TextBeforeColon(p) == SubSeq(p, 1, PositionOfFirstColon(p) - 1)

TextAfterColon(p) == SubSeq(p, PositionOfFirstColon(p) + 1, Len(p))

\* A relative path written without a leading, trailing or doubled "/".
PlainRelative(p) ==
    /\ p # << >>
    /\ p[1] # "/"
    /\ p[Len(p)] # "/"
    /\ \A i \in 1..(Len(p) - 1) : ~(p[i] = "/" /\ p[i + 1] = "/")

\* C24: a path containing ":" resolves to the cgroup root joined with the
\* text before the first ":" and then the text after the first ":", every
\* further ":" kept, which is the final element when it is a single element;
\* a path with no ":" resolves to the root joined with the path, unchanged
\* when it is a plain relative path; whether the directory exists on disk
\* plays no part.
C24_ResolveCgroupPath ==
    pc = "resolved" =>
        /\ HasColon(cgroupPath) =>
              LET before == TextBeforeColon(cgroupPath)
                  after  == TextAfterColon(cgroupPath)
              IN  /\ resolvedPath =
                        AbsolutePath(Elements(cgroupRoot) \o Elements(before)
                                        \o Elements(after))
                  /\ (after # << >> /\ ~Contains(after, Slash)) =>
                        /\ Elements(resolvedPath)[Len(Elements(resolvedPath))] = after
                        /\ Len(Elements(resolvedPath))
                              = Len(Elements(cgroupRoot)) + Len(Elements(before)) + 1
                  /\ (PlainRelative(before) /\ PlainRelative(after) /\ cgroupRoot # Slash)
                        => resolvedPath = cgroupRoot \o Slash \o before \o Slash \o after
        /\ ~HasColon(cgroupPath) =>
              /\ resolvedPath = AbsolutePath(Elements(cgroupRoot) \o Elements(cgroupPath))
              /\ (PlainRelative(cgroupPath) /\ cgroupRoot # Slash)
                    => resolvedPath = cgroupRoot \o Slash \o cgroupPath

\* A path with two colons whose directory does not exist has been resolved:
\* the second colon is still in the final element.
C24_Witness ==
    /\ pc = "resolved"
    /\ ~onDisk
    /\ cgroupRoot = <<"/", "r">>
    /\ cgroupPath = <<".slice", ":", "a", ":">> 
    /\ resolvedPath = <<"/", "r", "/", ".slice", "/", "a", ":">>

\* ------------------------------------------------------------------------
\* C25: a request without contributing mutators
\* ------------------------------------------------------------------------

\* C25: a request with a non-nil pod and an empty mutator-ownership map is
\* allowed by the restrictions layer and the policy layer for every
\* configuration: no mutation restriction, pod restriction or policy rule
\* is evaluated, and the call fails only when the legacy validator refuses.
C25_NoMutatorAllowed ==
    (pc = "done" /\ ~IsNil(req.Pod) /\ req.Plugins = {}) =>
        /\ \A i \in 1..Len(trace) : trace[i].check = "default"
        /\ result.err <=> (~IsNil(defaultValidator) /\ legacyVerdict = "fail")
        /\ result.err => SurfacedStage(result) = "default"

\* A request without mutators whose adjustment sets a namespace entry has
\* been allowed under defaultDeny = true and a global deny restriction on
\* namespaces.
C25_Witness ==
    /\ pc = "done"
    /\ ~IsNil(req.Pod)
    /\ req.Plugins = {}
    /\ ~IsNil(config.Policy)
    /\ Deref(config.Policy).DefaultDeny
    /\ Deref(config.Policy).Rules = << >>
    /\ DenyNamespacesApplies
    /\ trace = << >>
    /\ ~result.err

\* ------------------------------------------------------------------------
\* C26: a request without a pod
\* ------------------------------------------------------------------------

\* C26: a request whose pod is nil is denied by the pipeline under every
\* configuration, also one with no policy and no restrictions, and no
\* restriction check and no policy check is evaluated for it.
C26_NilPodDenied ==
    (pc = "done" /\ IsNil(req.Pod)) =>
        /\ result.err
        /\ SurfacedStage(result) \in {"default", "pod"}
        /\ \A i \in 1..Len(trace) : trace[i].check = "default"

\* A request without a pod that names two mutators has been refused by the
\* pod check under a configuration with no policy and no restrictions, the
\* legacy validator (where present) having passed it.
C26_Witness ==
    /\ pc = "done"
    /\ IsNil(req.Pod)
    /\ Cardinality(req.Plugins) = 2
    /\ IsNil(config.Policy)
    /\ IsNil(config.Restrictions)
    /\ \A i \in 1..Len(trace) : trace[i].ok
    /\ result.err
    /\ SurfacedStage(result) = "pod"

\* ------------------------------------------------------------------------
\* C27: the seccomp capability
\* Specification: a RestrictionsValidator whose only restriction is a deny
\* on seccomp, global or for every plugin, validates a request of one
\* mutator for every adjustment.
\* ------------------------------------------------------------------------

DenySeccomp == [Action |-> RestrictionDeny, Capabilities |-> <<MutationSeccomp>>]

SeccompConfigSet ==
    {[DefaultAction |-> "", GlobalRestrictions |-> << DenySeccomp >>,
      PluginRestrictions |-> << >>, GlobalPodRestrictions |-> << >>],
     [DefaultAction |-> "", GlobalRestrictions |-> << >>,
      PluginRestrictions |->
         << [PluginPattern |-> Star, MutationRestrictions |-> << DenySeccomp >>,
             PodRestrictions |-> << >>] >>,
      GlobalPodRestrictions |-> << >>]}

SeccompAdjustSet ==
    {Nil} \cup
    {Some(a) : a \in [Annotations : Ptr, Mounts : Ptr, Args : Ptr, Env : Ptr, Hooks : Ptr,
                      Rlimits : Ptr,
                      Linux : {Nil} \cup {Some(l) : l \in LinuxContainerAdjustmentSet}]}

SeccompInit ==
    /\ pc = "rv.pod"
    /\ restrictions \in {Some(rc) : rc \in SeccompConfigSet}
    /\ req \in [Pod : {Some([Namespace |-> <<"p">>, Name |-> <<"w">>, Labels |-> EmptyMap])},
                Adjust : SeccompAdjustSet,
                Plugins : {{<<"c">>}}]
    /\ pending = {}
    /\ trace = <<>>
    /\ result = NoError
    /\ caller = "test"
    /\ ctxDone = FALSE
    /\ config = Nil
    /\ policy = Nil
    /\ defaultValidator = Nil
    /\ legacyVerdict = "pass"
    /\ subject = Nil
    /\ validationCtx = Nil
    /\ GlobIdle
    /\ ExtractIdle
    /\ LoaderIdle

SeccompNext == RVPodCheck \/ RVPlugin

SpecSeccomp == SeccompInit /\ [][SeccompNext]_vars

RequestRefused ==
    \/ ~IsNil(defaultValidator) /\ legacyVerdict = "fail"
    \/ IsNil(req.Pod)
    \/ \E pluginName \in req.Plugins :
          \/ ~RestrictionsPass(config.Restrictions, pluginName, req)
          \/ ~PolicyPasses(PolicyOf(config), ContextSubject, Deref(req.Pod), pluginName)

\* The mutator fails one of its checks.
MutatorRefused(pluginName) ==
    \/ ~RestrictionsPass(config.Restrictions, pluginName, req)
    \/ ~PolicyPasses(PolicyOf(config), ContextSubject, Deref(req.Pod), pluginName)

\* C28: the allow/deny outcome of a request does not depend on the order in
\* which the mutator-ownership map is iterated: whatever order the two range
\* loops take, the call is refused exactly when the request, the
\* configuration and the subject say so, and the mutator the error names is
\* one that fails.
C28_OrderIndependent ==
    pc = "done" =>
        /\ result.err <=> RequestRefused
        /\ (result.err /\ result.plugin # << >>) => MutatorRefused(result.plugin)

\* Two mutators that both fail: the call was refused on behalf of "u",
\* which the loop reached first, and "c" was never evaluated.
C28_Witness ==
    /\ pc = "done"
    /\ ~IsNil(req.Pod)
    /\ req.Plugins = {<<"c">>, <<"u">>}
    /\ MutatorRefused(<<"c">>)
    /\ MutatorRefused(<<"u">>)
    /\ result.err
    /\ result.plugin = <<"u">>
    /\ \A i \in 1..Len(trace) : trace[i].plugin # <<"c">>

\* ------------------------------------------------------------------------
\* C29: adding restrictions
\* Specification: a request is validated by a RestrictionsValidator; a
\* validator is then built from the same configuration with one more
\* restriction and validates the same request, up to MaxAdded times.
\* history keeps the decisions of the earlier validators.
\* ------------------------------------------------------------------------

MaxAdded == 3

MonotoneConfigSet ==
    {[DefaultAction |-> "", GlobalRestrictions |-> << >>,
      PluginRestrictions |-> << >>, GlobalPodRestrictions |-> << >>],
     [DefaultAction |-> RestrictionDeny,
      GlobalRestrictions |->
         << [Action |-> RestrictionAllow,
             Capabilities |-> <<MutationEnv, MutationNamespaces>>] >>,
      PluginRestrictions |->
         << [PluginPattern |-> <<"c">>,
             MutationRestrictions |->
                << [Action |-> RestrictionDeny, Capabilities |-> <<MutationEnv>>] >>,
             PodRestrictions |-> << >>] >>,
      GlobalPodRestrictions |-> << >>]}

MonotoneRequestSet ==
    [Pod : {Some(pod) : pod \in PodSet},
     Adjust : {Some(EmptyAdjustment),
               Some([EmptyAdjustment EXCEPT !.Linux = Some(NamespacesOnly)]),
               Some([EmptyAdjustment EXCEPT !.Env = "set"])},
     Plugins : {{<<"c">>}, {<<"c">>, <<"u">>}}]

AddedPluginRestrictionSet ==
    {[PluginPattern |-> <<"u", "*">>,
      MutationRestrictions |->
         << [Action |-> RestrictionAllow,
             Capabilities |-> <<MutationEnv, MutationAnnotations>>] >>,
      PodRestrictions |-> << [Action |-> RestrictionAllow, Selector |-> SelectSandbox] >>],
     [PluginPattern |-> Star,
      MutationRestrictions |->
         << [Action |-> RestrictionDeny, Capabilities |-> <<MutationNamespaces>>] >>,
      PodRestrictions |-> << [Action |-> RestrictionDeny, Selector |-> SelectProduction] >>]}

\* The configuration with one more restriction, of any of the three kinds.
ExtensionsOf(rc) ==
    {[rc EXCEPT !.GlobalRestrictions = Append(@, m)] : m \in MutationRestrictionSet}
    \cup {[rc EXCEPT !.GlobalPodRestrictions = Append(@, q)] : q \in PodRestrictionSet}
    \cup {[rc EXCEPT !.PluginRestrictions = Append(@, pr)] : pr \in AddedPluginRestrictionSet}

MonotoneInit ==
    /\ pc = "rv.pod"
    /\ restrictions \in {Some(rc) : rc \in MonotoneConfigSet}
    /\ req \in MonotoneRequestSet
    /\ pending = {}
    /\ trace = <<>>
    /\ result = NoError
    /\ caller = "test"
    /\ ctxDone = FALSE
    /\ config = Nil
    /\ policy = Nil
    /\ defaultValidator = Nil
    /\ legacyVerdict = "pass"
    /\ subject = Nil
    /\ validationCtx = Nil
    /\ GlobIdle
    /\ ExtractIdle
    /\ LoaderIdle

\* NewRestrictionsValidator on the configuration with one more restriction,
\* and the same request handed to the new validator.
AddRestriction ==
    /\ pc = "rv.return"
    /\ Len(history) < MaxAdded
    /\ restrictions' \in {Some(rc) : rc \in ExtensionsOf(Deref(restrictions))}
    /\ history' = Append(history, result.err)
    /\ pending' = {}
    /\ trace' = <<>>
    /\ result' = NoError
    /\ pc' = "rv.pod"
    /\ UNCHANGED <<cgroupVars, files, mergedConfig, annotations, globVars, extractVars,
                   inputVars, policy, defaultValidator, validationCtx>>

MonotoneNext == RVPodCheck \/ RVPlugin \/ AddRestriction

SpecMonotone == MonotoneInit /\ [][MonotoneNext]_vars

\* C29: for a fixed request, adding a further restriction to a
\* RestrictionsConfig (a global MutationRestriction, a global
\* PodRestriction or a PluginRestriction, with either action) never changes
\* the restrictions result from denied to allowed.
C29_Monotone ==
    pc = "rv.return" =>
        \A i \in 1..Len(history) : history[i] => result.err

\* A request allowed under the first configuration, denied once a global
\* pod restriction was added, and still denied after an allow restriction
\* that covers the adjustment was added on top.
C29_Witness ==
    /\ pc = "rv.return"
    /\ history = <<FALSE, TRUE>>
    /\ result.err
    /\ LET g == Deref(restrictions).GlobalRestrictions
       IN  /\ Len(g) > 0
           /\ g[Len(g)].Action = RestrictionAllow
           /\ ~checkMutationRestriction(g[Len(g)],
                                        extractMutationCapabilities(req.Adjust)).err

\* ------------------------------------------------------------------------
\* C30: the enableDefaultValidator flag in a directory merge
\* ------------------------------------------------------------------------

=============================================================================
